---- MODULE Spec2Model ----
(***************************************************************************)
(* Model of the assertion engine of api-tester (app/assertions.py).        *)
(*                                                                         *)
(* Python values are tagged records:                                       *)
(*   [t |-> "NoneType"]            None / JSON null                        *)
(*   [t |-> "bool",  b |-> TRUE]   True / False                            *)
(*   [t |-> "int",   i |-> 3]      an int                                  *)
(*   [t |-> "float", f |-> 3]      a float (integral values only)          *)
(*   [t |-> "str",   s |-> <<"a", ".", "0">>]   a str, one entry per char  *)
(*   [t |-> "list",  l |-> <<v1, v2>>]          a list                     *)
(*   [t |-> "dict",  d |-> << <<k1, v1>>, <<k2, v2>> >>]  a dict, in       *)
(*        insertion order, its keys being char sequences, all distinct     *)
(* The tag is the value's type(v).__name__.  The character "sup2" stands   *)
(* for U+00B2 (superscript two), for which str.isdigit() is True and       *)
(* int() raises ValueError.                                                *)
(*                                                                         *)
(* A call's outcome is [kind |-> "return", ...] or                         *)
(* [kind |-> "raise", exc |-> <exception class>].                          *)
(***************************************************************************)
EXTENDS Integers, Sequences, FiniteSets, TLC

VARIABLES call

vars == <<call>>

\* ------------------------------------------------------------- values

PyNone == [t |-> "NoneType"]
PyBool(b) == [t |-> "bool", b |-> b]
PyInt(i) == [t |-> "int", i |-> i]
PyFloat(f) == [t |-> "float", f |-> f]
PyStr(s) == [t |-> "str", s |-> s]
PyList(l) == [t |-> "list", l |-> l]
PyDict(d) == [t |-> "dict", d |-> d]

Raise(exc) == [kind |-> "raise", exc |-> exc]

\* A call that has not returned yet.
Pending == [kind |-> "pending"]

Returned == call.ret.kind # "pending"

\* ------------------------------------------------------------- str

DecimalDigits == <<"0", "1", "2", "3", "4", "5", "6", "7", "8", "9">>

\* The characters str.isdigit() accepts: the decimal digits and digit-like
\* characters such as U+00B2.
IsDigitChar(c) == c = "sup2" \/ \E k \in 1..10 : DecimalDigits[k] = c

\* str.isdigit(): non-empty and every character a digit character.
isdigit(s) == Len(s) > 0 /\ \A k \in 1..Len(s) : IsDigitChar(s[k])

DigitValue(c) == (CHOOSE k \in 1..10 : DecimalDigits[k] = c) - 1

\* int(s) for an s with s.isdigit(): the decimal value, or ValueError when a
\* character is a digit character that is not a decimal digit.
RECURSIVE DecimalValue(_)
DecimalValue(s) ==
    IF s = <<>> THEN 0
    ELSE 10 * DecimalValue(SubSeq(s, 1, Len(s) - 1)) + DigitValue(s[Len(s)])

int(s) ==
    IF \A k \in 1..Len(s) : s[k] # "sup2"
    THEN [kind |-> "return", value |-> DecimalValue(s)]
    ELSE Raise("ValueError")

\* s.replace(old, new) for a one-character old and a new of length 0 or 1
\* (new is given as a character sequence).
RECURSIVE replace(_, _, _)
replace(s, old, new) ==
    IF s = <<>> THEN <<>>
    ELSE (IF Head(s) = old THEN new ELSE <<Head(s)>>) \o replace(Tail(s), old, new)

\* s.split(sep) for a one-character sep: always at least one segment.
FirstIndex(s, c) == CHOOSE j \in 1..Len(s) : s[j] = c /\ \A h \in 1..(j - 1) : s[h] # c

RECURSIVE split(_, _)
RECURSIVE SplitAt(_, _, _)
split(s, sep) ==
    IF \A k \in 1..Len(s) : s[k] # sep THEN <<s>>
    ELSE SplitAt(s, sep, FirstIndex(s, sep))

SplitAt(s, sep, k) == <<SubSeq(s, 1, k - 1)>> \o split(SubSeq(s, k + 1, Len(s)), sep)

\* ------------------------------------------------------------- dict

HasKey(d, k) == \E j \in 1..Len(d) : d[j][1] = k

Lookup(d, k) == d[CHOOSE j \in 1..Len(d) : d[j][1] = k][2]

\* ------------------------------------------------------------- get_nested_value

\* IndexByInt with one-based positions.
IndexByIntOneBased(value, n) ==
    CASE value.t = "list" ->
           IF n >= 1 /\ n <= Len(value.l) THEN [kind |-> "return", value |-> value.l[n]]
           ELSE Raise("IndexError")
      [] value.t = "str" ->
           IF n >= 1 /\ n <= Len(value.s) THEN [kind |-> "return", value |-> PyStr(<<value.s[n]>>)]
           ELSE Raise("IndexError")
      [] value.t = "dict" -> Raise("KeyError")
      [] OTHER -> Raise("TypeError")

\* value[int(key)]: subscription by an int.
IndexByInt(value, n) ==
    CASE value.t = "list" ->
           IF n < Len(value.l) THEN [kind |-> "return", value |-> value.l[n + 1]]
           ELSE Raise("IndexError")
      [] value.t = "str" ->
           IF n < Len(value.s) THEN [kind |-> "return", value |-> PyStr(<<value.s[n + 1]>>)]
           ELSE Raise("IndexError")
      [] value.t = "dict" -> Raise("KeyError")
      [] OTHER -> Raise("TypeError")

\* value[key]: subscription by a str.
IndexByKey(value, key) ==
    CASE value.t = "dict" ->
           IF HasKey(value.d, key) THEN [kind |-> "return", value |-> Lookup(value.d, key)]
           ELSE Raise("KeyError")
      [] OTHER -> Raise("TypeError")

\* Line 36, n being the outcome of int(key).
StepInt(value, n) == IF n.kind = "raise" THEN n ELSE IndexByInt(value, n.value)

\* One pass of the loop body, lines 35-38.
Step(value, key) == IF isdigit(key) THEN StepInt(value, int(key)) ELSE IndexByKey(value, key)

\* The loop of lines 34-38 over the remaining keys.
RECURSIVE Walk(_, _)
RECURSIVE WalkOn(_, _)
Walk(value, keys) ==
    IF keys = <<>> THEN [kind |-> "return", value |-> value]
    ELSE WalkOn(Step(value, Head(keys)), Tail(keys))

WalkOn(r, keys) == IF r.kind = "raise" THEN r ELSE Walk(r.value, keys)

\* Normalize with the closing bracket turned into a separator as well.
NormalizeBothBrackets(s) == replace(replace(s, "[", <<".">>), "]", <<".">>)

\* Line 32.
Normalize(s) == replace(replace(s, "[", <<".">>), "]", <<>>)

PathKeys(s) == split(Normalize(s), ".")

\* The exceptions the handler of line 40 absorbs.
CaughtExceptions == {"KeyError", "IndexError", "TypeError", "AttributeError"}

Found(value) == [kind |-> "return", found |-> TRUE, value |-> value]
NotFound == [kind |-> "return", found |-> FALSE, value |-> PyNone]

\* The handler with a value that is None, [] or {} taken as not found.
AbsorbTruthy(r) ==
    IF r.kind = "raise"
    THEN (IF r.exc \in CaughtExceptions THEN NotFound ELSE r)
    ELSE (IF r.value \in {PyNone, PyList(<<>>), PyDict(<<>>)} THEN NotFound ELSE Found(r.value))

\* Lines 39-41, r being the outcome of the try block.
Absorb(r) ==
    IF r.kind = "raise"
    THEN (IF r.exc \in CaughtExceptions THEN NotFound ELSE r)
    ELSE Found(r.value)

\* A path that is no str has no replace: AttributeError.
get_nested_value(data, path) ==
    Absorb(IF path.t # "str" THEN Raise("AttributeError") ELSE Walk(data, PathKeys(path.s)))

\* ------------------------------------------------------------- Python operators on values

IsNumber(v) == v.t \in {"bool", "int", "float"}

\* The numeric value of a bool, an int or a float.
Num(v) ==
    CASE v.t = "bool" -> (IF v.b THEN 1 ELSE 0)
      [] v.t = "int" -> v.i
      [] v.t = "float" -> v.f

\* bool(v): the truth value `not v` negates.
Truthy(v) ==
    CASE v.t = "NoneType" -> FALSE
      [] v.t = "bool" -> v.b
      [] v.t = "int" -> v.i # 0
      [] v.t = "float" -> v.f # 0
      [] v.t = "str" -> v.s # <<>>
      [] v.t = "list" -> v.l # <<>>
      [] v.t = "dict" -> v.d # <<>>

\* a == b
RECURSIVE PyEq(_, _)
PyEq(a, b) ==
    CASE IsNumber(a) /\ IsNumber(b) -> Num(a) = Num(b)
      [] a.t = "str" /\ b.t = "str" -> a.s = b.s
      [] a.t = "NoneType" /\ b.t = "NoneType" -> TRUE
      [] a.t = "list" /\ b.t = "list" ->
           /\ Len(a.l) = Len(b.l)
           /\ \A k \in 1..Len(a.l) : PyEq(a.l[k], b.l[k])
      [] a.t = "dict" /\ b.t = "dict" ->
           /\ Len(a.d) = Len(b.d)
           /\ \A k \in 1..Len(a.d) :
                  /\ HasKey(b.d, a.d[k][1])
                  /\ PyEq(a.d[k][2], Lookup(b.d, a.d[k][1]))
      [] OTHER -> FALSE

\* Whether sub occurs in s as a run of consecutive characters.
IsSubstring(sub, s) ==
    \E k \in 0..(Len(s) - Len(sub)) : SubSeq(s, k + 1, k + Len(sub)) = sub

\* item in container, for an int or str item.
Contains(container, item) ==
    CASE container.t = "list" ->
           [kind |-> "return", value |-> \E k \in 1..Len(container.l) : PyEq(container.l[k], item)]
      [] container.t = "dict" ->
           [kind |-> "return", value |-> item.t = "str" /\ HasKey(container.d, item.s)]
      [] container.t = "str" ->
           IF item.t = "str"
           THEN [kind |-> "return", value |-> IsSubstring(item.s, container.s)]
           ELSE Raise("TypeError")
      [] OTHER -> Raise("TypeError")

\* container[key] for a str key.
GetItem(container, key) ==
    CASE container.t = "dict" ->
           IF HasKey(container.d, key) THEN [kind |-> "return", value |-> Lookup(container.d, key)]
           ELSE Raise("KeyError")
      [] OTHER -> Raise("TypeError")

\* config.get(key): None when the key is absent, AttributeError when config
\* is no dict.
Get(config, key) ==
    CASE config.t = "dict" ->
           [kind |-> "return",
            value |-> IF HasKey(config.d, key) THEN Lookup(config.d, key) ELSE PyNone]
      [] OTHER -> Raise("AttributeError")

\* The items a for loop over v visits.
Iterate(v) ==
    CASE v.t = "list" -> [kind |-> "return", items |-> v.l]
      [] v.t = "str" -> [kind |-> "return", items |-> [k \in 1..Len(v.s) |-> PyStr(<<v.s[k]>>)]]
      [] v.t = "dict" -> [kind |-> "return", items |-> [k \in 1..Len(v.d) |-> PyStr(v.d[k][1])]]
      [] OTHER -> Raise("TypeError")

\* ------------------------------------------------------------- text

\* U+00B2 is written ^2 in the model's texts.
CharText(c) == IF c = "sup2" THEN "^2" ELSE c

RECURSIVE Chars(_)
Chars(s) == IF s = <<>> THEN "" ELSE CharText(Head(s)) \o Chars(Tail(s))

\* sep.join(texts)
RECURSIVE JoinText(_, _)
JoinText(sep, texts) ==
    IF texts = <<>> THEN ""
    ELSE IF Len(texts) = 1 THEN texts[1]
    ELSE texts[1] \o sep \o JoinText(sep, Tail(texts))

\* repr(v)
RECURSIVE Repr(_)
Repr(v) ==
    CASE v.t = "NoneType" -> "None"
      [] v.t = "bool" -> (IF v.b THEN "True" ELSE "False")
      [] v.t = "int" -> ToString(v.i)
      [] v.t = "float" -> ToString(v.f) \o ".0"
      [] v.t = "str" -> "'" \o Chars(v.s) \o "'"
      [] v.t = "list" -> "[" \o JoinText(", ", [k \in 1..Len(v.l) |-> Repr(v.l[k])]) \o "]"
      [] v.t = "dict" ->
           "{" \o JoinText(", ", [k \in 1..Len(v.d) |->
                                     "'" \o Chars(v.d[k][1]) \o "': " \o Repr(v.d[k][2])]) \o "}"

\* str(v), what an f-string field {v} renders.
Format(v) == IF v.t = "str" THEN Chars(v.s) ELSE Repr(v)

\* sep.join(items): TypeError unless every item is a str.
Join(sep, items) ==
    IF \A k \in 1..Len(items) : items[k].t = "str"
    THEN [kind |-> "return", value |-> JoinText(sep, [k \in 1..Len(items) |-> Chars(items[k].s)])]
    ELSE Raise("TypeError")

\* ------------------------------------------------------------- AssertionResult

\* Lines 10-16; expected and actual default to None.
AssertionResult(passed, message, assertion_type, expected, actual) ==
    [kind |-> "return", passed |-> passed, message |-> message,
     assertion_type |-> assertion_type, expected |-> expected, actual |-> actual]

\* The keys the evaluators read.
KeyIn == <<"i", "n">>
KeyMax == <<"m", "a", "x">>
KeyMin == <<"m", "i", "n">>
KeyPath == <<"p", "a", "t", "h">>
KeyValue == <<"v", "a", "l", "u", "e">>
KeyType == <<"t", "y", "p", "e">>

\* ------------------------------------------------------------- evaluate_status_code

\* isinstance(expected, int), line 55: bool is a subclass of int.
StatusCodeIsInt(expected) == expected.t \in {"int", "bool"}

\* Lines 56-64.
StatusExact(expected, actual, passed) ==
    AssertionResult(passed,
        IF passed THEN "Status code is " \o Format(actual)
        ELSE "Expected status code " \o Format(expected) \o ", got " \o Format(actual),
        "statusCode", expected, actual)

\* Lines 67-75, member being the outcome of `actual in allowed`.
StatusMember(allowed, actual, member) ==
    IF member.kind = "raise" THEN member
    ELSE AssertionResult(member.value,
             IF member.value
             THEN "Status code " \o Format(actual) \o " is in allowed list"
             ELSE "Expected status code in " \o Format(allowed) \o ", got " \o Format(actual),
             "statusCode", allowed, actual)

\* Lines 66-75.
StatusIn(allowed, actual) == StatusMember(allowed, actual, Contains(allowed, actual))

evaluate_status_code(expected, actual) ==
    IF StatusCodeIsInt(expected)
    THEN StatusExact(expected, actual, PyEq(actual, expected))
    ELSE IF expected.t = "dict" /\ HasKey(expected.d, KeyIn)
    THEN StatusIn(Lookup(expected.d, KeyIn), actual)
    ELSE AssertionResult(FALSE, "Invalid status code assertion format", "statusCode",
                         PyNone, PyNone)

\* ------------------------------------------------------------- evaluate_response_time

\* The comparison with the bound itself excluded.
BelowMax(actual_ms, max_time) == Num(actual_ms) < Num(max_time)

\* actual_ms <= max_time, line 103.
WithinMax(actual_ms, max_time) == Num(actual_ms) <= Num(max_time)

\* Lines 104-112.
TimeVerdict(max_time, actual_ms, passed) ==
    AssertionResult(passed,
        IF passed
        THEN "Response time " \o ToString(Num(actual_ms)) \o "ms is within "
                 \o Format(max_time) \o "ms"
        ELSE "Response time " \o ToString(Num(actual_ms)) \o "ms exceeds max "
                 \o Format(max_time) \o "ms",
        "responseTime", max_time, actual_ms)

\* Lines 102-112, item being the outcome of threshold["max"]; the
\* comparison raises TypeError unless max is a number.
TimeAgainst(item, actual_ms) ==
    IF item.kind = "raise" THEN item
    ELSE IF ~IsNumber(item.value) THEN Raise("TypeError")
    ELSE TimeVerdict(item.value, actual_ms, WithinMax(actual_ms, item.value))

\* Lines 95-112, has being the outcome of `"max" in threshold`.
TimeWithKey(threshold, actual_ms, has) ==
    IF has.kind = "raise" THEN has
    ELSE IF ~has.value
    THEN AssertionResult(FALSE, "Response time threshold must have 'max' key",
                         "responseTime", PyNone, PyNone)
    ELSE TimeAgainst(GetItem(threshold, KeyMax), actual_ms)

evaluate_response_time(threshold, actual_ms) ==
    TimeWithKey(threshold, actual_ms, Contains(threshold, PyStr(KeyMax)))

\* ------------------------------------------------------------- evaluate_required_fields, evaluate_forbidden_fields

\* The loops of lines 128-131 and 162-165: the items whose found equals
\* keep, in order; an exception of the resolver ends the loop.
RECURSIVE SelectFields(_, _, _)
RECURSIVE SelectNext(_, _, _, _)
SelectFields(items, response_data, keep) ==
    IF items = <<>> THEN [kind |-> "return", items |-> <<>>]
    ELSE SelectNext(items, response_data, keep, get_nested_value(response_data, Head(items)))

SelectRest(item, kept, rest) ==
    IF rest.kind = "raise" THEN rest
    ELSE [kind |-> "return", items |-> (IF kept THEN <<item>> ELSE <<>>) \o rest.items]

SelectNext(items, response_data, keep, r) ==
    IF r.kind = "raise" THEN r
    ELSE SelectRest(Head(items), r.found = keep, SelectFields(Tail(items), response_data, keep))

\* Lines 135-146, text being the outcome of the join.
RequiredVerdict(fields, missing_fields, passed, text) ==
    IF text.kind = "raise" THEN text
    ELSE AssertionResult(passed,
             IF passed THEN "All required fields present: " \o text.value
             ELSE "Missing required fields: " \o text.value,
             "requiredFields", fields,
             IF passed THEN PyNone ELSE PyList(missing_fields))

\* Lines 133-146.
RequiredFrom(fields, items, missing) ==
    IF missing.kind = "raise" THEN missing
    ELSE RequiredVerdict(fields, missing.items, missing.items = <<>>,
             Join(", ", IF missing.items = <<>> THEN items ELSE missing.items))

\* Lines 126-146, it being the outcome of iterating fields.
RequiredOver(fields, response_data, it) ==
    IF it.kind = "raise" THEN it
    ELSE RequiredFrom(fields, it.items, SelectFields(it.items, response_data, FALSE))

evaluate_required_fields(fields, response_data) ==
    RequiredOver(fields, response_data, Iterate(fields))

\* Lines 171-180, text being the outcome of the join.
ForbiddenFailure(fields, found_fields, text) ==
    IF text.kind = "raise" THEN text
    ELSE AssertionResult(FALSE, "Forbidden fields found: " \o text.value,
                         "forbiddenFields", fields, PyList(found_fields))

\* Lines 167-180.
ForbiddenFrom(fields, found) ==
    IF found.kind = "raise" THEN found
    ELSE IF found.items = <<>>
    THEN AssertionResult(TRUE, "No forbidden fields present", "forbiddenFields", fields, PyNone)
    ELSE ForbiddenFailure(fields, found.items, Join(", ", found.items))

\* The forbidden-field check looking at the first listed path only.
ForbiddenOverFirst(fields, response_data, it) ==
    IF it.kind = "raise" THEN it
    ELSE ForbiddenFrom(fields, SelectFields(IF it.items = <<>> THEN <<>> ELSE <<Head(it.items)>>,
                                            response_data, TRUE))

\* Lines 160-180, it being the outcome of iterating fields.
ForbiddenOver(fields, response_data, it) ==
    IF it.kind = "raise" THEN it
    ELSE ForbiddenFrom(fields, SelectFields(it.items, response_data, TRUE))

evaluate_forbidden_fields(fields, response_data) ==
    ForbiddenOver(fields, response_data, Iterate(fields))

\* ------------------------------------------------------------- evaluate_array_length

\* type(v).__name__ as a str.
TypeNameChars(v) ==
    CASE v.t = "NoneType" -> <<"N", "o", "n", "e", "T", "y", "p", "e">>
      [] v.t = "bool" -> <<"b", "o", "o", "l">>
      [] v.t = "int" -> <<"i", "n", "t">>
      [] v.t = "float" -> <<"f", "l", "o", "a", "t">>
      [] v.t = "str" -> <<"s", "t", "r">>
      [] v.t = "list" -> <<"l", "i", "s", "t">>
      [] v.t = "dict" -> <<"d", "i", "c", "t">>

\* The bounds tested for truth, so that a bound of 0 is not enforced.
CheckLengthNonZero(config, path, min_length, max_length, actual_length) ==
    IF Truthy(min_length) /\ actual_length < Num(min_length)
    THEN AssertionResult(FALSE,
             "Array '" \o Format(path) \o "' length " \o ToString(actual_length)
                 \o " is less than min " \o Format(min_length),
             "arrayLength", config, PyInt(actual_length))
    ELSE IF Truthy(max_length) /\ actual_length > Num(max_length)
    THEN AssertionResult(FALSE,
             "Array '" \o Format(path) \o "' length " \o ToString(actual_length)
                 \o " exceeds max " \o Format(max_length),
             "arrayLength", config, PyInt(actual_length))
    ELSE AssertionResult(TRUE,
             "Array '" \o Format(path) \o "' length " \o ToString(actual_length) \o " is valid",
             "arrayLength", config, PyInt(actual_length))

\* Lines 225-253, for a resolved list; a comparison with a bound that is no
\* number raises TypeError.
CheckLength(config, path, min_length, max_length, actual_length) ==
    IF min_length.t # "NoneType" /\ ~IsNumber(min_length) THEN Raise("TypeError")
    ELSE IF min_length.t # "NoneType" /\ actual_length < Num(min_length)
    THEN AssertionResult(FALSE,
             "Array '" \o Format(path) \o "' length " \o ToString(actual_length)
                 \o " is less than min " \o Format(min_length),
             "arrayLength", config, PyInt(actual_length))
    ELSE IF max_length.t # "NoneType" /\ ~IsNumber(max_length) THEN Raise("TypeError")
    ELSE IF max_length.t # "NoneType" /\ actual_length > Num(max_length)
    THEN AssertionResult(FALSE,
             "Array '" \o Format(path) \o "' length " \o ToString(actual_length)
                 \o " exceeds max " \o Format(max_length),
             "arrayLength", config, PyInt(actual_length))
    ELSE AssertionResult(TRUE,
             "Array '" \o Format(path) \o "' length " \o ToString(actual_length) \o " is valid",
             "arrayLength", config, PyInt(actual_length))

\* The type test accepting every sized value, so that bounds are compared
\* for a str.
LengthOfSized(config, path, min_length, max_length, r) ==
    IF r.kind = "raise" THEN r
    ELSE IF ~r.found
    THEN AssertionResult(FALSE, "Field '" \o Format(path) \o "' not found in response",
                         "arrayLength", config, PyNone)
    ELSE IF r.value.t \notin {"list", "str"}
    THEN AssertionResult(FALSE,
             "Field '" \o Format(path) \o "' is not an array (got "
                 \o Chars(TypeNameChars(r.value)) \o ")",
             "arrayLength", config, PyStr(TypeNameChars(r.value)))
    ELSE CheckLength(config, path, min_length, max_length,
                     IF r.value.t = "list" THEN Len(r.value.l) ELSE Len(r.value.s))

\* Lines 207-253, r being the resolver's outcome.
LengthOf(config, path, min_length, max_length, r) ==
    IF r.kind = "raise" THEN r
    ELSE IF ~r.found
    THEN AssertionResult(FALSE, "Field '" \o Format(path) \o "' not found in response",
                         "arrayLength", config, PyNone)
    ELSE IF r.value.t # "list"
    THEN AssertionResult(FALSE,
             "Field '" \o Format(path) \o "' is not an array (got "
                 \o Chars(TypeNameChars(r.value)) \o ")",
             "arrayLength", config, PyStr(TypeNameChars(r.value)))
    ELSE CheckLength(config, path, min_length, max_length, Len(r.value.l))

\* Lines 198-253.
LengthAt(config, response_data, path, min_length, max_length) ==
    IF ~Truthy(path)
    THEN AssertionResult(FALSE, "Array length assertion must have 'path' key",
                         "arrayLength", PyNone, PyNone)
    ELSE LengthOf(config, path, min_length, max_length, get_nested_value(response_data, path))

evaluate_array_length(config, response_data) ==
    IF config.t # "dict" THEN Get(config, KeyPath)
    ELSE LengthAt(config, response_data, Get(config, KeyPath).value,
                  Get(config, KeyMin).value, Get(config, KeyMax).value)

\* ------------------------------------------------------------- evaluate_field_equals

\* Lines 290-301.
EqualsVerdict(path, expected_value, actual_value, passed) ==
    AssertionResult(passed,
        IF passed
        THEN "Field '" \o Format(path) \o "' equals '" \o Format(expected_value) \o "'"
        ELSE "Field '" \o Format(path) \o "' expected '" \o Format(expected_value)
                 \o "', got '" \o Format(actual_value) \o "'",
        "fieldEquals", expected_value, actual_value)

\* Lines 279-301, r being the resolver's outcome.
EqualsOf(path, expected_value, r) ==
    IF r.kind = "raise" THEN r
    ELSE IF ~r.found
    THEN AssertionResult(FALSE, "Field '" \o Format(path) \o "' not found in response",
                         "fieldEquals", expected_value, PyNone)
    ELSE EqualsVerdict(path, expected_value, r.value, PyEq(r.value, expected_value))

\* Lines 270-301.
EqualsAt(response_data, path, expected_value) ==
    IF ~Truthy(path)
    THEN AssertionResult(FALSE, "Field equals assertion must have 'path' key",
                         "fieldEquals", PyNone, PyNone)
    ELSE EqualsOf(path, expected_value, get_nested_value(response_data, path))

evaluate_field_equals(config, response_data) ==
    IF config.t # "dict" THEN Get(config, KeyPath)
    ELSE EqualsAt(response_data, Get(config, KeyPath).value, Get(config, KeyValue).value)

\* ------------------------------------------------------------- evaluate_field_type

TypeString == <<"s", "t", "r", "i", "n", "g">>
TypeNumber == <<"n", "u", "m", "b", "e", "r">>
TypeBoolean == <<"b", "o", "o", "l", "e", "a", "n">>
TypeArray == <<"a", "r", "r", "a", "y">>
TypeObject == <<"o", "b", "j", "e", "c", "t">>
TypeNull == <<"n", "u", "l", "l">>

\* type_mapping, lines 337-344: the Python types each type name accepts
\* under isinstance (bool is a subclass of int).
type_mapping ==
    << <<TypeString, {"str"}>>,
       <<TypeNumber, {"int", "float", "bool"}>>,
       <<TypeBoolean, {"bool"}>>,
       <<TypeArray, {"list"}>>,
       <<TypeObject, {"dict"}>>,
       <<TypeNull, {"NoneType"}>> >>

\* list(type_mapping.keys()) as line 349 renders it.
TypeNamesText == "['string', 'number', 'boolean', 'array', 'object', 'null']"

\* Lines 353-369.
TypeVerdict(path, expected_type, value, passed) ==
    AssertionResult(passed,
        IF passed
        THEN "Field '" \o Format(path) \o "' is of type '" \o Format(expected_type) \o "'"
        ELSE "Field '" \o Format(path) \o "' expected type '" \o Format(expected_type)
                 \o "', got '" \o Chars(TypeNameChars(value)) \o "'",
        "fieldType", expected_type, PyStr(TypeNameChars(value)))

\* Lines 336-369, for a resolved value; the membership test of line 346
\* raises TypeError for an unhashable expected_type.
CheckType(path, expected_type, value) ==
    IF expected_type.t \in {"list", "dict"} THEN Raise("TypeError")
    ELSE IF ~(expected_type.t = "str" /\ HasKey(type_mapping, expected_type.s))
    THEN AssertionResult(FALSE,
             "Invalid type '" \o Format(expected_type) \o "'. Must be one of: " \o TypeNamesText,
             "fieldType", PyNone, PyNone)
    ELSE TypeVerdict(path, expected_type, value,
                     value.t \in Lookup(type_mapping, expected_type.s))

\* A path that does not resolve taken as a field holding None.
TypeOfAbsentAsNone(path, expected_type, r) ==
    IF r.kind = "raise" THEN r
    ELSE CheckType(path, expected_type, r.value)

\* Lines 327-369, r being the resolver's outcome.
TypeOf(path, expected_type, r) ==
    IF r.kind = "raise" THEN r
    ELSE IF ~r.found
    THEN AssertionResult(FALSE, "Field '" \o Format(path) \o "' not found in response",
                         "fieldType", expected_type, PyNone)
    ELSE CheckType(path, expected_type, r.value)

\* Lines 318-369.
TypeAt(response_data, path, expected_type) ==
    IF ~Truthy(path) \/ ~Truthy(expected_type)
    THEN AssertionResult(FALSE, "Field type assertion must have 'path' and 'type' keys",
                         "fieldType", PyNone, PyNone)
    ELSE TypeOf(path, expected_type, get_nested_value(response_data, path))

evaluate_field_type(config, response_data) ==
    IF config.t # "dict" THEN Get(config, KeyPath)
    ELSE TypeAt(response_data, Get(config, KeyPath).value, Get(config, KeyType).value)

\* ------------------------------------------------------------- evaluate_structure

\* A str built by an f-string, kept as its text.
PyText(text) == [t |-> "str", text |-> text]

\* The loop of lines 392-395 over the schema's entries, in the mapping's
\* order: the error texts, or the exception that ended the loop.
RECURSIVE StructureErrors(_, _)
RECURSIVE StructureNext(_, _, _)
StructureErrors(entries, response_data) ==
    IF entries = <<>> THEN [kind |-> "return", items |-> <<>>]
    ELSE StructureNext(entries, response_data,
             evaluate_field_type(
                 PyDict(<< <<KeyPath, PyStr(Head(entries)[1])>>, <<KeyType, Head(entries)[2]>> >>),
                 response_data))

\* The loop stopping at the first failing entry.
StructureRestStop(field, result, rest) ==
    IF rest.kind = "raise" THEN rest
    ELSE [kind |-> "return",
          items |-> IF result.passed THEN rest.items
                    ELSE <<Chars(field) \o ": " \o result.message>>]

StructureRest(field, result, rest) ==
    IF rest.kind = "raise" THEN rest
    ELSE [kind |-> "return",
          items |-> (IF result.passed THEN <<>>
                     ELSE <<Chars(field) \o ": " \o result.message>>) \o rest.items]

StructureNext(entries, response_data, result) ==
    IF result.kind = "raise" THEN result
    ELSE StructureRest(Head(entries)[1], result, StructureErrors(Tail(entries), response_data))

\* Lines 397-410.
StructureVerdict(schema, errors) ==
    IF errors.kind = "raise" THEN errors
    ELSE IF errors.items = <<>>
    THEN AssertionResult(TRUE,
             "Response structure matches schema (" \o ToString(Len(schema.d))
                 \o " fields validated)",
             "hasStructure", schema, PyNone)
    ELSE AssertionResult(FALSE,
             "Structure validation failed: " \o JoinText("; ", errors.items),
             "hasStructure", schema,
             PyList([k \in 1..Len(errors.items) |-> PyText(errors.items[k])]))

evaluate_structure(schema, response_data) ==
    IF ~Truthy(schema)
    THEN AssertionResult(FALSE, "Structure assertion must have schema definition",
                         "hasStructure", PyNone, PyNone)
    ELSE IF schema.t # "dict" THEN Raise("AttributeError")
    ELSE StructureVerdict(schema, StructureErrors(schema.d, response_data))

\* ------------------------------------------------------------- evaluate_all_assertions

KindStatusCode == <<"s", "t", "a", "t", "u", "s", "C", "o", "d", "e">>
KindResponseTime == <<"r", "e", "s", "p", "o", "n", "s", "e", "T", "i", "m", "e">>
KindRequiredFields == <<"r", "e", "q", "u", "i", "r", "e", "d", "F", "i", "e", "l", "d", "s">>
KindForbiddenFields == <<"f", "o", "r", "b", "i", "d", "d", "e", "n", "F", "i", "e", "l", "d", "s">>
KindArrayLength == <<"a", "r", "r", "a", "y", "L", "e", "n", "g", "t", "h">>
KindFieldEquals == <<"f", "i", "e", "l", "d", "E", "q", "u", "a", "l", "s">>
KindFieldType == <<"f", "i", "e", "l", "d", "T", "y", "p", "e">>
KindHasStructure == <<"h", "a", "s", "S", "t", "r", "u", "c", "t", "u", "r", "e">>

Kinds ==
    {KindStatusCode, KindResponseTime, KindRequiredFields, KindForbiddenFields,
     KindArrayLength, KindFieldEquals, KindFieldType, KindHasStructure}

\* The eight kinds taken in the order the rule set lists its keys.
RuleSetOrder(assertions) ==
    SelectSeq([k \in 1..Len(assertions.d) |-> assertions.d[k][1]], LAMBDA kind : kind \in Kinds)

\* The if statements of lines 433-463, in the order they stand.
EvaluationOrder(assertions) ==
    <<KindStatusCode, KindResponseTime, KindRequiredFields, KindForbiddenFields,
      KindArrayLength, KindFieldEquals, KindFieldType, KindHasStructure>>

\* The test with the null check left out.
IsPresent(assertions, kind) == HasKey(assertions.d, kind)

\* "kind" in assertions and assertions["kind"] is not None
IsChecked(assertions, kind) ==
    HasKey(assertions.d, kind) /\ Lookup(assertions.d, kind).t # "NoneType"

\* The evaluator each if statement calls.
Evaluate(kind, config, response_data, status_code, response_time_ms) ==
    CASE kind = KindStatusCode -> evaluate_status_code(config, status_code)
      [] kind = KindResponseTime -> evaluate_response_time(config, response_time_ms)
      [] kind = KindRequiredFields -> evaluate_required_fields(config, response_data)
      [] kind = KindForbiddenFields -> evaluate_forbidden_fields(config, response_data)
      [] kind = KindArrayLength -> evaluate_array_length(config, response_data)
      [] kind = KindFieldEquals -> evaluate_field_equals(config, response_data)
      [] kind = KindFieldType -> evaluate_field_type(config, response_data)
      [] kind = KindHasStructure -> evaluate_structure(config, response_data)

\* results.append(...) and the statements after it.
AppendResult(r, rest) ==
    IF rest.kind = "raise" THEN rest
    ELSE [kind |-> "return", results |-> <<r>> \o rest.results]

\* The if statements from the first of kinds on: the verdicts appended, or
\* the exception that left the function.
RECURSIVE EvaluateKinds(_, _, _, _, _)
RECURSIVE EvaluateNext(_, _, _, _, _, _)
EvaluateKinds(kinds, assertions, response_data, status_code, response_time_ms) ==
    IF kinds = <<>> THEN [kind |-> "return", results |-> <<>>]
    ELSE IF ~IsChecked(assertions, Head(kinds))
    THEN EvaluateKinds(Tail(kinds), assertions, response_data, status_code, response_time_ms)
    ELSE EvaluateNext(kinds, assertions, response_data, status_code, response_time_ms,
             Evaluate(Head(kinds), Lookup(assertions.d, Head(kinds)),
                      response_data, status_code, response_time_ms))

EvaluateNext(kinds, assertions, response_data, status_code, response_time_ms, r) ==
    IF r.kind = "raise" THEN r
    ELSE AppendResult(r, EvaluateKinds(Tail(kinds), assertions, response_data,
                                       status_code, response_time_ms))

evaluate_all_assertions(assertions, response_data, status_code, response_time_ms) ==
    EvaluateKinds(EvaluationOrder(assertions), assertions, response_data,
                  status_code, response_time_ms)

\* ------------------------------------------------------------- get_overall_result

\* [r for r in assertion_results] with the filter left out.
AllResults(assertion_results) == assertion_results

\* [r for r in assertion_results if not r.passed], line 481.
Failed(assertion_results) == SelectSeq(assertion_results, LAMBDA r : ~r.passed)

\* Lines 483-487.
OverallOf(failed) ==
    IF failed # <<>>
    THEN [kind |-> "return", passed |-> FALSE,
          failure_reason |->
              PyText(JoinText("; ", [k \in 1..Len(failed) |-> failed[k].message]))]
    ELSE [kind |-> "return", passed |-> TRUE, failure_reason |-> PyNone]

get_overall_result(assertion_results) ==
    IF assertion_results = <<>>
    THEN [kind |-> "return", passed |-> TRUE, failure_reason |-> PyNone]
    ELSE OverallOf(Failed(assertion_results))

\* ------------------------------------------------------------- inputs of get_nested_value

\* Response bodies: nested mappings and sequences with scalar leaves, among
\* them a key made of digits, a key holding a dot, a key holding a bracket,
\* an empty key, a key that is U+00B2, str leaves and non-container roots.
Roots ==
    { PyDict(<< <<<<"a">>, PyList(<<PyDict(<< <<<<"a">>, PyStr(<<"a", "0">>)>> >>), PyInt(1)>>)>>,
                <<<<"0">>, PyNone>> >>),
      PyDict(<< <<<<"a">>, PyList(<<PyList(<<PyBool(TRUE)>>)>>)>>,
                <<<<"a", ".", "a">>, PyInt(1)>> >>),
      PyDict(<< <<<<"a">>, PyDict(<< <<<<"a">>, PyInt(2)>>, <<<<"0">>, PyList(<<>>)>> >>)>>,
                <<<<"a", "]">>, PyInt(3)>> >>),
      PyDict(<< <<<<>>, PyDict(<< <<<<>>, PyInt(1)>> >>)>>,
                <<<<"sup2">>, PyBool(FALSE)>> >>),
      PyList(<<PyList(<<PyInt(0), PyStr(<<"a">>)>>), PyDict(<< <<<<"a">>, PyNone>> >>)>>),
      PyDict(<< <<<<"a">>, PyStr(<<"a", "0">>)>> >>),
      PyStr(<<"a", "0">>),
      PyInt(0),
      PyBool(TRUE),
      PyNone }

\* Paths are built from pieces: single characters and a whole bracket index.
Pieces == { <<"a">>, <<"0">>, <<".">>, <<"[">>, <<"]">>, <<"sup2">>, <<"[", "0", "]">> }

MaxPathPieces == 4

RECURSIVE PathsUpTo(_)
PathsUpTo(n) ==
    IF n = 0 THEN {<<>>}
    ELSE LET P == PathsUpTo(n - 1) IN P \cup {p \o q : p \in P, q \in Pieces}

Paths == PathsUpTo(MaxPathPieces)

\* ------------------------------------------------------------- specification: the path resolver

InitResolve ==
    call \in {[op |-> "get_nested_value", data |-> r, path |-> PyStr(p), ret |-> Pending] :
                  r \in Roots, p \in Paths}

GetNestedValue ==
    /\ call.op = "get_nested_value"
    /\ call.ret = Pending
    /\ call' = [call EXCEPT !.ret = get_nested_value(call.data, call.path)]

NextResolve == GetNestedValue

SpecResolve == InitResolve /\ [][NextResolve]_vars

\* ------------------------------------------------------------- claims on the path resolver

ResolveReturned == call.op = "get_nested_value" /\ Returned

\* C2 (as claimed): get_nested_value never raises, whatever the root and the
\* path string; every traversal failure comes back as found = false.
C2_NeverRaises == ResolveReturned => call.ret.kind = "return"

IsDecimalDigit(c) == \E k \in 1..10 : DecimalDigits[k] = c

\* The number of decimal digits s starts with.
RECURSIVE LeadingDigits(_)
LeadingDigits(s) ==
    IF s # <<>> /\ IsDecimalDigit(Head(s)) THEN 1 + LeadingDigits(Tail(s)) ELSE 0

\* The path with every bracket index [n] rewritten as the dotted segment .n
RECURSIVE Dotted(_)
Dotted(s) ==
    IF s = <<>> THEN <<>>
    ELSE LET n == LeadingDigits(Tail(s))
         IN  IF Head(s) = "[" /\ n > 0 /\ Len(s) >= n + 2 /\ s[n + 2] = "]"
             THEN <<".">> \o SubSeq(s, 2, n + 1) \o Dotted(SubSeq(s, n + 3, Len(s)))
             ELSE <<Head(s)>> \o Dotted(Tail(s))

\* C3: a path with bracket index suffixes and the same path with each [n]
\* rewritten as .n resolve to the identical (found, value) result, wherever
\* the bracket index stands in the path.
C3_BracketEqualsDotted ==
    ResolveReturned =>
        call.ret = get_nested_value(call.data, PyStr(Dotted(call.path.s)))

\* C3 witness: a path with a bracket index in the middle that is found.
C3_Witness ==
    /\ ResolveReturned
    /\ call.ret.kind = "return"
    /\ call.ret.found
    /\ call.path.s = <<"a", "[", "0", "]", ".", "a">>
    /\ Dotted(call.path.s) = <<"a", ".", "0", ".", "a">>

\* A route through a value: mapping keys and zero-based sequence indices.
KeyStep(key) == [k |-> "key", key |-> key]
IndexStep(n) == [k |-> "index", n |-> n]

RECURSIVE Routes(_)
Routes(v) ==
    {<<>>} \cup
    (CASE v.t = "dict" ->
            UNION {{<<KeyStep(v.d[j][1])>> \o r : r \in Routes(v.d[j][2])} : j \in 1..Len(v.d)}
       [] v.t = "list" ->
            UNION {{<<IndexStep(j - 1)>> \o r : r \in Routes(v.l[j])} : j \in 1..Len(v.l)}
       [] OTHER -> {})

RECURSIVE ValueAt(_, _)
ValueAt(v, route) ==
    IF route = <<>> THEN v
    ELSE IF Head(route).k = "key" THEN ValueAt(Lookup(v.d, Head(route).key), Tail(route))
    ELSE ValueAt(v.l[Head(route).n + 1], Tail(route))

\* The decimal text of a natural number.
RECURSIVE Decimal(_)
Decimal(n) ==
    IF n < 10 THEN <<DecimalDigits[n + 1]>>
    ELSE Decimal(n \div 10) \o <<DecimalDigits[(n % 10) + 1]>>

StepText(step) == IF step.k = "key" THEN step.key ELSE Decimal(step.n)

\* The route's steps joined with "."
RECURSIVE PathOf(_)
PathOf(route) ==
    IF route = <<>> THEN <<>>
    ELSE IF Len(route) = 1 THEN StepText(route[1])
    ELSE StepText(route[1]) \o <<".">> \o PathOf(Tail(route))

\* A key that holds no separator and no bracket, so that joining with "."
\* keeps it one segment.
OneSegmentKey(key) == \A k \in 1..Len(key) : key[k] \notin {".", "[", "]"}

\* A key of letters and decimal digits only.
AlphanumericKey(key) == OneSegmentKey(key) /\ \A k \in 1..Len(key) : key[k] # "sup2"

AlphanumericRoute(route) ==
    /\ route # <<>>
    /\ \A k \in 1..Len(route) : route[k].k = "key" => AlphanumericKey(route[k].key)

PlainKey(key) == OneSegmentKey(key) /\ ~isdigit(key)

PlainRoute(route) ==
    /\ route # <<>>
    /\ \A k \in 1..Len(route) : route[k].k = "key" => PlainKey(route[k].key)

RECURSIVE SegmentsMatch(_, _)
SegmentsMatch(value, keys) ==
    IF keys = <<>> THEN TRUE
    ELSE LET key == Head(keys)
         IN  IF isdigit(key)
             THEN /\ value.t = "list"
                  /\ \A k \in 1..Len(key) : IsDecimalDigit(key[k])
                  /\ DecimalValue(key) < Len(value.l)
                  /\ SegmentsMatch(value.l[DecimalValue(key) + 1], Tail(keys))
             ELSE /\ value.t = "dict"
                  /\ HasKey(value.d, key)
                  /\ SegmentsMatch(Lookup(value.d, key), Tail(keys))

\* C5 (as claimed): a returned found is true exactly when every segment was
\* applied to a value of the matching container kind and the key or index
\* exists; a numeric segment on a non-array and a non-numeric segment on a
\* non-object give found = false.
C5_FoundOnlyThroughContainers ==
    (ResolveReturned /\ call.data.t = "dict" /\ call.ret.kind = "return") =>
        (call.ret.found <=> SegmentsMatch(call.data, PathKeys(call.path.s)))

\* ------------------------------------------------------------- specification: the orchestrator

BodyFull == PyDict(<< <<<<"a">>, PyList(<<PyDict(<< <<<<"a">>, PyStr(<<"a", "0">>)>> >>), PyInt(1)>>)>>,
                      <<<<"0">>, PyNone>> >>)
BodyEmpty == PyDict(<<>>)

\* Response contexts: body, status code, response time in ms.
Contexts ==
    { [response_data |-> BodyFull, status_code |-> PyInt(200), response_time_ms |-> PyFloat(2500)],
      [response_data |-> BodyEmpty, status_code |-> PyInt(404), response_time_ms |-> PyFloat(3500)] }

\* Rule set entries: for each kind well-formed and malformed configurations
\* and null, and a key that is no kind.
RuleOptions ==
    { <<KindStatusCode, PyInt(200)>>,
      <<KindStatusCode, PyDict(<< <<KeyIn, PyList(<<PyInt(200), PyInt(201)>>)>> >>)>>,
      <<KindStatusCode, PyStr(<<"a">>)>>,
      <<KindStatusCode, PyDict(<< <<KeyIn, PyInt(200)>> >>)>>,
      <<KindResponseTime, PyDict(<< <<KeyMax, PyInt(3000)>> >>)>>,
      <<KindResponseTime, PyDict(<<>>)>>,
      <<KindResponseTime, PyInt(3000)>>,
      <<KindRequiredFields, PyList(<<PyStr(<<"a">>)>>)>>,
      <<KindRequiredFields, PyInt(5)>>,
      <<KindForbiddenFields, PyList(<<PyStr(<<"a">>)>>)>>,
      <<KindArrayLength, PyDict(<< <<KeyPath, PyStr(<<"a">>)>>, <<KeyMin, PyInt(1)>> >>)>>,
      <<KindArrayLength, PyList(<<PyStr(<<"a">>)>>)>>,
      <<KindFieldEquals, PyDict(<< <<KeyPath, PyStr(<<"a", ".", "1">>)>>, <<KeyValue, PyInt(1)>> >>)>>,
      <<KindFieldType, PyDict(<< <<KeyPath, PyStr(<<"a">>)>>, <<KeyType, PyStr(TypeArray)>> >>)>>,
      <<KindFieldType, PyDict(<< <<KeyPath, PyStr(<<"a">>)>> >>)>>,
      <<KindHasStructure, PyDict(<< <<<<"a">>, PyStr(TypeArray)>>, <<<<"0">>, PyStr(TypeNull)>> >>)>>,
      <<KindHasStructure, PyDict(<<>>)>>,
      <<<<"o", "t", "h", "e", "r">>, PyInt(5)>> }
    \cup {<<kind, PyNone>> : kind \in Kinds}

MaxRules == 2

\* The rule sets of up to n entries, in every order of their keys.
RECURSIVE RuleSetsUpTo(_)
RuleSetsUpTo(n) ==
    IF n = 0 THEN {<<>>}
    ELSE LET S == RuleSetsUpTo(n - 1)
         IN  S \cup {Append(d, e) : d \in S, e \in RuleOptions}

RuleSets == {d \in RuleSetsUpTo(MaxRules) :
                 \A j, k \in 1..Len(d) : d[j][1] = d[k][1] => j = k}

InitEval ==
    call \in {[op |-> "evaluate_all_assertions", assertions |-> PyDict(d),
               response_data |-> c.response_data, status_code |-> c.status_code,
               response_time_ms |-> c.response_time_ms,
               ret |-> Pending, overall |-> Pending] : d \in RuleSets, c \in Contexts}

EvaluateAllAssertions ==
    /\ call.op = "evaluate_all_assertions"
    /\ call.ret = Pending
    /\ call' = [call EXCEPT !.ret = evaluate_all_assertions(call.assertions, call.response_data,
                                        call.status_code, call.response_time_ms)]

\* The caller's next statement, routers/api.py line 503 and line 716.
ReduceResults ==
    /\ call.op = "evaluate_all_assertions"
    /\ call.ret.kind = "return"
    /\ call.overall = Pending
    /\ call' = [call EXCEPT !.overall = get_overall_result(call.ret.results)]

NextEval == EvaluateAllAssertions \/ ReduceResults

SpecEval == InitEval /\ [][NextEval]_vars

\* ------------------------------------------------------------- claims on the orchestrator

EvalReturned == call.op = "evaluate_all_assertions" /\ Returned

\* The kinds of the rule set that are present with a non-null configuration.
CheckedKinds(assertions) ==
    {assertions.d[k][1] : k \in {j \in 1..Len(assertions.d) :
                                     /\ assertions.d[j][1] \in Kinds
                                     /\ assertions.d[j][2] # PyNone}}

\* C1 (as claimed): for every rule set, malformed configurations included,
\* evaluate_all_assertions raises nothing and returns exactly one verdict
\* for each kind present with a non-null configuration.
C1_OneVerdictPerCheckedKind ==
    EvalReturned =>
        /\ call.ret.kind = "return"
        /\ Len(call.ret.results) = Cardinality(CheckedKinds(call.assertions))

\* C6: when each of the eight kinds is absent or null, whatever other keys
\* the rule set holds, evaluate_all_assertions returns the empty list and
\* get_overall_result of it is (True, None).
C6_NothingCheckedPassesEmpty ==
    (EvalReturned /\ CheckedKinds(call.assertions) = {}) =>
        /\ call.ret.kind = "return"
        /\ call.ret.results = <<>>
        /\ call.overall # Pending =>
               call.overall = [kind |-> "return", passed |-> TRUE, failure_reason |-> PyNone]

\* C6 witness: a rule set with a null kind and a key that is no kind, reduced.
C6_Witness ==
    /\ EvalReturned
    /\ call.overall # Pending
    /\ CheckedKinds(call.assertions) = {}
    /\ \E k \in 1..Len(call.assertions.d) : call.assertions.d[k][1] \in Kinds
    /\ \E k \in 1..Len(call.assertions.d) : call.assertions.d[k][1] \notin Kinds

\* The declaration order of the kinds, by the names the verdicts carry.
DeclarationOrder ==
    << <<KindStatusCode, "statusCode">>, <<KindResponseTime, "responseTime">>,
       <<KindRequiredFields, "requiredFields">>, <<KindForbiddenFields, "forbiddenFields">>,
       <<KindArrayLength, "arrayLength">>, <<KindFieldEquals, "fieldEquals">>,
       <<KindFieldType, "fieldType">>, <<KindHasStructure, "hasStructure">> >>

\* The names of the checked kinds, in declaration order.
ExpectedTypes(assertions) ==
    LET checked == SelectSeq(DeclarationOrder, LAMBDA e : e[1] \in CheckedKinds(assertions))
    IN  [k \in 1..Len(checked) |-> checked[k][2]]

\* The first position of the verdict of the named kind.
PositionOf(results, name) == CHOOSE k \in 1..Len(results) : results[k].assertion_type = name

HasFailing(results, name) ==
    \E k \in 1..Len(results) : results[k].assertion_type = name /\ ~results[k].passed

\* C7: the returned verdicts follow the declaration order of the kinds, not
\* the order of the rule set's keys: each names its kind, no kind appears
\* twice, an absent or null kind gives none; and when statusCode and
\* requiredFields both fail, the aggregate reason is the failing messages
\* in that order, the statusCode message before the requiredFields one.
C7_DeclarationOrder ==
    (EvalReturned /\ call.ret.kind = "return") =>
        LET results == call.ret.results
        IN  /\ [k \in 1..Len(results) |-> results[k].assertion_type]
                   = ExpectedTypes(call.assertions)
            /\ (/\ call.overall # Pending
                /\ HasFailing(results, "statusCode")
                /\ HasFailing(results, "requiredFields")) =>
                   LET failing == SelectSeq(results, LAMBDA r : ~r.passed)
                   IN  /\ PositionOf(failing, "statusCode") < PositionOf(failing, "requiredFields")
                       /\ call.overall.failure_reason =
                              PyText(JoinText("; ", [k \in 1..Len(failing) |-> failing[k].message]))

\* C7 witness: requiredFields listed before statusCode in the rule set, both
\* failing, and the aggregate reason holding the two messages in
\* declaration order.
C7_Witness ==
    /\ EvalReturned
    /\ call.ret.kind = "return"
    /\ call.overall # Pending
    /\ Len(call.assertions.d) = 2
    /\ call.assertions.d[1][1] = KindRequiredFields
    /\ call.assertions.d[2][1] = KindStatusCode
    /\ call.overall.failure_reason =
           PyText("Expected status code 200, got 404; Missing required fields: a")

\* ------------------------------------------------------------- specification: the aggregate

\* Verdicts as get_overall_result reads them: passed and message.
Messages == {"", "m1", "m2"}

Verdicts ==
    {AssertionResult(passed, message, "statusCode", PyNone, PyNone) :
         passed \in BOOLEAN, message \in Messages}

MaxVerdicts == 3

RECURSIVE VerdictListsUpTo(_)
VerdictListsUpTo(n) ==
    IF n = 0 THEN {<<>>}
    ELSE LET S == VerdictListsUpTo(n - 1)
         IN  S \cup {Append(l, v) : l \in S, v \in Verdicts}

InitReduce ==
    call \in {[op |-> "get_overall_result", assertion_results |-> l, ret |-> Pending] :
                  l \in VerdictListsUpTo(MaxVerdicts)}

GetOverallResult ==
    /\ call.op = "get_overall_result"
    /\ call.ret = Pending
    /\ call' = [call EXCEPT !.ret = get_overall_result(call.assertion_results)]

NextReduce == GetOverallResult

SpecReduce == InitReduce /\ [][NextReduce]_vars

\* ------------------------------------------------------------- claims on the aggregate

ReduceReturned == call.op = "get_overall_result" /\ Returned

\* The messages of the failing verdicts, in list order.
RECURSIVE FailingMessages(_)
FailingMessages(results) ==
    IF results = <<>> THEN <<>>
    ELSE (IF Head(results).passed THEN <<>> ELSE <<Head(results).message>>)
             \o FailingMessages(Tail(results))

\* C8: get_overall_result passes exactly when the list is empty or every
\* verdict passed; the reason is None exactly when it passes, and otherwise
\* the messages of the failing verdicts only, in list order, joined by "; ".
C8_AggregateOfFailures ==
    ReduceReturned =>
        LET results == call.assertion_results
        IN  /\ call.ret.kind = "return"
            /\ call.ret.passed <=> \A k \in 1..Len(results) : results[k].passed
            /\ call.ret.passed <=> call.ret.failure_reason = PyNone
            /\ ~call.ret.passed =>
                   call.ret.failure_reason = PyText(JoinText("; ", FailingMessages(results)))

\* C8 witness: a passing verdict between two failing ones; the reason holds
\* the two failing messages, in order, and not the passing one.
C8_Witness ==
    /\ ReduceReturned
    /\ Len(call.assertion_results) = 3
    /\ [k \in 1..3 |-> call.assertion_results[k].passed] = <<FALSE, TRUE, FALSE>>
    /\ [k \in 1..3 |-> call.assertion_results[k].message] = <<"m2", "m1", "m1">>
    /\ call.ret.failure_reason = PyText("m2; m1")

\* ------------------------------------------------------------- specification: evaluate_status_code

\* statusCode configurations of every shape.
StatusConfigs ==
    { PyInt(200), PyInt(404), PyInt(201),
      PyBool(TRUE), PyBool(FALSE),
      PyFloat(200), PyNone,
      PyStr(<<"2", "0", "0">>),
      PyList(<<PyInt(200)>>),
      PyDict(<<>>),
      PyDict(<< <<<<"o", "t", "h", "e", "r">>, PyList(<<PyInt(200)>>)>> >>),
      PyDict(<< <<KeyIn, PyList(<<PyInt(200), PyInt(201)>>)>> >>),
      PyDict(<< <<KeyIn, PyList(<<>>)>> >>),
      PyDict(<< <<KeyIn, PyInt(200)>> >>),
      PyDict(<< <<KeyIn, PyStr(<<"2", "0", "0">>)>> >>),
      PyDict(<< <<KeyIn, PyNone>> >>),
      PyDict(<< <<KeyIn, PyDict(<< <<<<"2", "0", "0">>, PyInt(200)>> >>)>> >>) }

StatusCodes == {PyInt(200), PyInt(201), PyInt(204), PyInt(404), PyInt(500)}

InitStatus ==
    call \in {[op |-> "evaluate_status_code", expected |-> e, actual |-> a, ret |-> Pending] :
                  e \in StatusConfigs, a \in StatusCodes}

EvaluateStatusCode ==
    /\ call.op = "evaluate_status_code"
    /\ call.ret = Pending
    /\ call' = [call EXCEPT !.ret = evaluate_status_code(call.expected, call.actual)]

NextStatus == EvaluateStatusCode

SpecStatus == InitStatus /\ [][NextStatus]_vars

\* ------------------------------------------------------------- claims on evaluate_status_code

StatusReturned == call.op = "evaluate_status_code" /\ Returned

IsIntList(v) == v.t = "list" /\ \A k \in 1..Len(v.l) : v.l[k].t = "int"

\* C9 (as claimed): a literal integer passes exactly when the actual code
\* equals it; {in: [int, ...]} passes exactly when the actual code is in the
\* list; every other shape (a boolean, a string, a list, a mapping without
\* in, a mapping whose in is no list) gives passed = false with the message
\* "Invalid status code assertion format" and expected and actual unset.
C9_DecidedByShape ==
    StatusReturned =>
        LET expected == call.expected
            actual == call.actual
        IN  /\ call.ret.kind = "return"
            /\ CASE expected.t = "int" -> call.ret.passed = (actual.i = expected.i)
                 [] expected.t = "dict" /\ HasKey(expected.d, KeyIn)
                        /\ IsIntList(Lookup(expected.d, KeyIn)) ->
                      call.ret.passed =
                          (\E k \in 1..Len(Lookup(expected.d, KeyIn).l) :
                               Lookup(expected.d, KeyIn).l[k].i = actual.i)
                 [] OTHER ->
                      call.ret = AssertionResult(FALSE, "Invalid status code assertion format",
                                                 "statusCode", PyNone, PyNone)

\* ------------------------------------------------------------- specification: evaluate_response_time

MaxMs == 8

\* responseTime configurations {max: int}, and ones without max.
TimeConfigs ==
    {PyDict(<< <<KeyMax, PyInt(m)>> >>) : m \in 0..MaxMs}
    \cup {PyDict(<<>>), PyDict(<< <<KeyMin, PyInt(1)>> >>)}

InitTime ==
    call \in {[op |-> "evaluate_response_time", threshold |-> c, actual_ms |-> PyFloat(a),
               ret |-> Pending] : c \in TimeConfigs, a \in 0..MaxMs}

EvaluateResponseTime ==
    /\ call.op = "evaluate_response_time"
    /\ call.ret = Pending
    /\ call' = [call EXCEPT !.ret = evaluate_response_time(call.threshold, call.actual_ms)]

NextTime == EvaluateResponseTime

SpecTime == InitTime /\ [][NextTime]_vars

\* ------------------------------------------------------------- claims on evaluate_response_time

TimeReturned == call.op = "evaluate_response_time" /\ Returned

\* C10: with a max key the verdict passes exactly when the measured time is
\* less than or equal to max, a time equal to max passing, with expected =
\* max and actual = the measured time; without a max key it fails with
\* expected and actual unset.
C10_WithinMaxInclusive ==
    TimeReturned =>
        /\ call.ret.kind = "return"
        /\ call.ret.assertion_type = "responseTime"
        /\ IF HasKey(call.threshold.d, KeyMax)
           THEN /\ call.ret.passed = (call.actual_ms.f <= Lookup(call.threshold.d, KeyMax).i)
                /\ call.ret.expected = Lookup(call.threshold.d, KeyMax)
                /\ call.ret.actual = call.actual_ms
           ELSE /\ ~call.ret.passed
                /\ call.ret.expected = PyNone
                /\ call.ret.actual = PyNone

\* C10 witness: a measured time equal to max, which passes.
C10_Witness ==
    /\ TimeReturned
    /\ HasKey(call.threshold.d, KeyMax)
    /\ call.actual_ms.f = Lookup(call.threshold.d, KeyMax).i
    /\ call.ret.passed

\* ------------------------------------------------------------- specification: requiredFields and forbiddenFields

\* A body with a null, an empty array, an empty object and a nested number.
BodyPresent ==
    PyDict(<< <<<<"a">>, PyNone>>, <<<<"b">>, PyList(<<>>)>>, <<<<"c">>, PyDict(<<>>)>>,
              <<<<"m">>, PyDict(<< <<<<"n">>, PyInt(5)>> >>)>> >>)

BodyNested ==
    PyDict(<< <<<<"m">>, PyDict(<< <<<<"x">>, PyBool(FALSE)>> >>)>>, <<<<"b">>, PyList(<<PyInt(0)>>)>> >>)

FieldBodies == {BodyPresent, BodyNested, BodyEmpty}

\* Field paths: top-level and nested keys, an index into an array.
FieldPaths ==
    { PyStr(<<"a">>), PyStr(<<"b">>), PyStr(<<"c">>), PyStr(<<"m", ".", "n">>),
      PyStr(<<"m", ".", "x">>), PyStr(<<"x">>), PyStr(<<"b", "[", "0", "]">>) }

MaxFields == 3

\* The path lists of up to n paths, duplicates included.
RECURSIVE FieldListsUpTo(_)
FieldListsUpTo(n) ==
    IF n = 0 THEN {<<>>}
    ELSE LET S == FieldListsUpTo(n - 1)
         IN  S \cup {Append(l, p) : l \in S, p \in FieldPaths}

InitFields ==
    call \in {[op |-> "fields", fields |-> PyList(l), response_data |-> b,
               required |-> Pending, forbidden |-> Pending] :
                  l \in FieldListsUpTo(MaxFields), b \in FieldBodies}

EvaluateRequiredFields ==
    /\ call.op = "fields"
    /\ call.required = Pending
    /\ call' = [call EXCEPT !.required = evaluate_required_fields(call.fields, call.response_data)]

EvaluateForbiddenFields ==
    /\ call.op = "fields"
    /\ call.forbidden = Pending
    /\ call' = [call EXCEPT !.forbidden = evaluate_forbidden_fields(call.fields, call.response_data)]

NextFields == EvaluateRequiredFields \/ EvaluateForbiddenFields

SpecFields == InitFields /\ [][NextFields]_vars

\* ------------------------------------------------------------- claims on requiredFields and forbiddenFields

RequiredReturned == call.op = "fields" /\ call.required # Pending

ForbiddenReturned == call.op = "fields" /\ call.forbidden # Pending

\* Whether the route a path names exists in the body, a null, an empty array
\* or an empty object at its end included.
RouteExists(body, path) ==
    \E route \in Routes(body) : route # <<>> /\ PathOf(route) = Normalize(path.s)

\* The listed paths whose existence in the body equals present, in input
\* order, duplicates kept.
RECURSIVE PathsWhere(_, _, _)
PathsWhere(fields, body, present) ==
    IF fields = <<>> THEN <<>>
    ELSE (IF RouteExists(body, Head(fields)) = present THEN <<Head(fields)>> ELSE <<>>)
             \o PathsWhere(Tail(fields), body, present)

Unresolved(fields, body) == PathsWhere(fields, body, FALSE)

Resolved(fields, body) == PathsWhere(fields, body, TRUE)

\* C11: evaluate_required_fields passes exactly when every listed path
\* exists in the body, a path whose value is null, an empty array or an
\* empty object counting as found; on failure actual is the sub-list of the
\* unresolved paths in input order, duplicates kept, and expected is the
\* full input list; on success actual is unset.
C11_RequiredMissingSubList ==
    RequiredReturned =>
        LET missing == Unresolved(call.fields.l, call.response_data)
        IN  /\ call.required.kind = "return"
            /\ call.required.assertion_type = "requiredFields"
            /\ call.required.passed = (missing = <<>>)
            /\ call.required.expected = call.fields
            /\ call.required.actual = (IF missing = <<>> THEN PyNone ELSE PyList(missing))

\* C11 witness: null, an empty array and an empty object are required and
\* present, and the call passes.
C11_Witness ==
    /\ RequiredReturned
    /\ call.response_data = BodyPresent
    /\ call.fields = PyList(<<PyStr(<<"a">>), PyStr(<<"b">>), PyStr(<<"c">>)>>)
    /\ call.required.passed
    /\ call.required.actual = PyNone

\* The items of the list a failing verdict reports, none when it passed.
Reported(verdict) == IF verdict.actual = PyNone THEN <<>> ELSE verdict.actual.l

InList(l, p) == \E k \in 1..Len(l) : l[k] = p

\* C12: evaluate_forbidden_fields passes exactly when none of the listed
\* paths exists in the body, a path present with value null making it fail;
\* each listed path is reported either as missing by requiredFields or as
\* found by forbiddenFields and never by both, so for a non-empty list the
\* two never both pass, and for the empty list both pass.
C12_ForbiddenMirrorsRequired ==
    (RequiredReturned /\ ForbiddenReturned) =>
        LET found == Resolved(call.fields.l, call.response_data)
        IN  /\ call.forbidden.kind = "return"
            /\ call.forbidden.assertion_type = "forbiddenFields"
            /\ call.forbidden.passed = (found = <<>>)
            /\ call.forbidden.expected = call.fields
            /\ call.forbidden.actual = (IF found = <<>> THEN PyNone ELSE PyList(found))
            /\ \A k \in 1..Len(call.fields.l) :
                   InList(Reported(call.required), call.fields.l[k])
                       # InList(Reported(call.forbidden), call.fields.l[k])
            /\ call.fields.l # <<>> => ~(call.required.passed /\ call.forbidden.passed)
            /\ call.fields.l = <<>> => (call.required.passed /\ call.forbidden.passed)

\* C12 witness: a list with a null field and an absent field fails both
\* rules, each reporting its own path.
C12_Witness ==
    /\ RequiredReturned
    /\ ForbiddenReturned
    /\ call.response_data = BodyPresent
    /\ call.fields = PyList(<<PyStr(<<"x">>), PyStr(<<"a">>)>>)
    /\ call.required.actual = PyList(<<PyStr(<<"x">>)>>)
    /\ call.forbidden.actual = PyList(<<PyStr(<<"a">>)>>)

\* ------------------------------------------------------------- specification: evaluate_array_length

KeyItems == <<"i", "t", "e", "m", "s">>

MaxBound == 3

\* min and max: absent, or a bound from 0 up.
BoundOptions(key) == {<<>>} \cup {<< <<key, PyInt(b)>> >> : b \in 0..MaxBound}

LengthConfigs ==
    {PyDict(<< <<KeyPath, PyStr(KeyItems)>> >> \o lo \o hi) :
         lo \in BoundOptions(KeyMin), hi \in BoundOptions(KeyMax)}

\* Bodies whose items is an array of each length up to one past the largest
\* bound, a body whose items is a str, and a body without items.
LengthBodies ==
    {PyDict(<< <<KeyItems, PyList([k \in 1..n |-> PyInt(k)])>> >>) : n \in 0..(MaxBound + 1)}
    \cup {PyDict(<< <<KeyItems, PyStr(<<"x">>)>> >>), BodyEmpty}

InitLength ==
    call \in {[op |-> "evaluate_array_length", config |-> c, response_data |-> b, ret |-> Pending] :
                  c \in LengthConfigs, b \in LengthBodies}

EvaluateArrayLength ==
    /\ call.op = "evaluate_array_length"
    /\ call.ret = Pending
    /\ call' = [call EXCEPT !.ret = evaluate_array_length(call.config, call.response_data)]

NextLength == EvaluateArrayLength

SpecLength == InitLength /\ [][NextLength]_vars

\* ------------------------------------------------------------- claims on evaluate_array_length

\* The call has returned and items is an array.
LengthReturned ==
    /\ call.op = "evaluate_array_length"
    /\ Returned
    /\ HasKey(call.response_data.d, KeyItems)
    /\ Lookup(call.response_data.d, KeyItems).t = "list"

MeasuredLength == Len(Lookup(call.response_data.d, KeyItems).l)

BelowMin == HasKey(call.config.d, KeyMin) /\ MeasuredLength < Lookup(call.config.d, KeyMin).i

AboveMax == HasKey(call.config.d, KeyMax) /\ MeasuredLength > Lookup(call.config.d, KeyMax).i

\* C13: on a path that resolves to an array evaluate_array_length passes
\* exactly when (min is absent or length >= min) and (max is absent or
\* length <= max), a bound of 0 being enforced like any other; when the
\* length violates both bounds the min violation is the one reported; actual
\* is the measured length whether the verdict passes or fails on a bound.
C13_LengthWithinBounds ==
    LengthReturned =>
        /\ call.ret.kind = "return"
        /\ call.ret.assertion_type = "arrayLength"
        /\ call.ret.passed = (~BelowMin /\ ~AboveMax)
        /\ call.ret.actual = PyInt(MeasuredLength)
        /\ call.ret.expected = call.config
        /\ BelowMin =>
               call.ret.message = "Array 'items' length " \o ToString(MeasuredLength)
                   \o " is less than min " \o ToString(Lookup(call.config.d, KeyMin).i)
        /\ (AboveMax /\ ~BelowMin) =>
               call.ret.message = "Array 'items' length " \o ToString(MeasuredLength)
                   \o " exceeds max " \o ToString(Lookup(call.config.d, KeyMax).i)

\* C13 witness: a max of 0 fails an array of one item.
C13_Witness ==
    /\ LengthReturned
    /\ MeasuredLength = 1
    /\ HasKey(call.config.d, KeyMax)
    /\ Lookup(call.config.d, KeyMax) = PyInt(0)
    /\ ~HasKey(call.config.d, KeyMin)
    /\ ~call.ret.passed
    /\ call.ret.actual = PyInt(1)

\* ------------------------------------------------------------- specification: evaluate_field_equals

KeyA == <<"a">>

\* JSON values: booleans, the integers they compare equal to, a float, a
\* str, null, and arrays and objects holding them.
EqualsValues ==
    { PyBool(TRUE), PyBool(FALSE), PyInt(1), PyInt(0), PyFloat(1), PyStr(<<"1">>), PyNone,
      PyList(<<>>), PyList(<<PyBool(TRUE)>>), PyList(<<PyInt(1)>>),
      PyDict(<<>>), PyDict(<< <<KeyA, PyBool(FALSE)>> >>), PyDict(<< <<KeyA, PyInt(0)>> >>) }

EqualsConfigs == {PyDict(<< <<KeyPath, PyStr(KeyA)>>, <<KeyValue, v>> >>) : v \in EqualsValues}

EqualsBodies == {PyDict(<< <<KeyA, v>> >>) : v \in EqualsValues} \cup {BodyEmpty}

InitEquals ==
    call \in {[op |-> "evaluate_field_equals", config |-> c, response_data |-> b, ret |-> Pending] :
                  c \in EqualsConfigs, b \in EqualsBodies}

EvaluateFieldEquals ==
    /\ call.op = "evaluate_field_equals"
    /\ call.ret = Pending
    /\ call' = [call EXCEPT !.ret = evaluate_field_equals(call.config, call.response_data)]

NextEquals == EvaluateFieldEquals

SpecEquals == InitEquals /\ [][NextEquals]_vars

\* ------------------------------------------------------------- claims on evaluate_field_equals

EqualsReturned == call.op = "evaluate_field_equals" /\ Returned

\* The JSON type of a value: int and float are both number.
JsonType(v) == IF v.t \in {"int", "float"} THEN "number" ELSE v.t

\* Equal JSON types and equal contents, compared deeply.
RECURSIVE DeepEqual(_, _)
DeepEqual(a, b) ==
    /\ JsonType(a) = JsonType(b)
    /\ CASE JsonType(a) = "number" -> Num(a) = Num(b)
         [] a.t = "list" ->
              /\ Len(a.l) = Len(b.l)
              /\ \A k \in 1..Len(a.l) : DeepEqual(a.l[k], b.l[k])
         [] a.t = "dict" ->
              /\ Len(a.d) = Len(b.d)
              /\ \A k \in 1..Len(a.d) :
                     /\ HasKey(b.d, a.d[k][1])
                     /\ DeepEqual(a.d[k][2], Lookup(b.d, a.d[k][1]))
         [] OTHER -> a = b

\* C14 (as claimed): on a resolved path evaluate_field_equals passes exactly
\* when the resolved value and the configured value have equal types and
\* equal contents, compared deeply, so that true is not 1 and false is not 0,
\* nested in arrays and objects too; on an unresolved path the verdict fails
\* with actual = null even when the configured value is null.
C14_EqualTypesAndContents ==
    EqualsReturned =>
        /\ call.ret.kind = "return"
        /\ IF HasKey(call.response_data.d, KeyA)
           THEN call.ret.passed = DeepEqual(Lookup(call.response_data.d, KeyA),
                                            Lookup(call.config.d, KeyValue))
           ELSE ~call.ret.passed /\ call.ret.actual = PyNone

\* ------------------------------------------------------------- specification: evaluate_field_type

TypeInteger == <<"i", "n", "t", "e", "g", "e", "r">>

\* The six type names, and two names that are none of them.
TypeNames ==
    {TypeString, TypeNumber, TypeBoolean, TypeArray, TypeObject, TypeNull,
     TypeInteger, <<"N", "u", "m", "b", "e", "r">>}

TypeConfigs ==
    {PyDict(<< <<KeyPath, PyStr(KeyA)>>, <<KeyType, PyStr(n)>> >>) : n \in TypeNames}

\* One value of each Python type JSON decodes to, both booleans included,
\* and the values that are false in a test: 0, "", [] and {}.
TypeValues ==
    { PyBool(TRUE), PyBool(FALSE), PyInt(1), PyFloat(1), PyStr(<<"1">>), PyNone,
      PyList(<<PyInt(1)>>), PyDict(<<>>), PyInt(0), PyStr(<<>>), PyList(<<>>) }

TypeBodies == {PyDict(<< <<KeyA, v>> >>) : v \in TypeValues} \cup {BodyEmpty}

InitType ==
    call \in {[op |-> "evaluate_field_type", config |-> c, response_data |-> b, ret |-> Pending] :
                  c \in TypeConfigs, b \in TypeBodies}

EvaluateFieldType ==
    /\ call.op = "evaluate_field_type"
    /\ call.ret = Pending
    /\ call' = [call EXCEPT !.ret = evaluate_field_type(call.config, call.response_data)]

NextType == EvaluateFieldType

SpecType == InitType /\ [][NextType]_vars

\* ------------------------------------------------------------- claims on evaluate_field_type

TypeReturned == call.op = "evaluate_field_type" /\ Returned

ValidTypeNames == {TypeString, TypeNumber, TypeBoolean, TypeArray, TypeObject, TypeNull}

\* C15 (as claimed): for a value that is true or false the verdict passes
\* exactly when the configured type is "boolean"; a boolean never passes
\* "number" or any other type name.
C15_BooleanOnlyBoolean ==
    (/\ TypeReturned
     /\ HasKey(call.response_data.d, KeyA)
     /\ Lookup(call.response_data.d, KeyA).t = "bool") =>
        /\ call.ret.kind = "return"
        /\ call.ret.passed = (Lookup(call.config.d, KeyType) = PyStr(TypeBoolean))

\* C16 (as claimed): a type that is none of the six names gives the
\* invalid-format verdict, passed = false with expected and actual unset and
\* a message listing the six names, whether or not the path resolves.
C16_UnknownTypeIsInvalidFormat ==
    (TypeReturned /\ Lookup(call.config.d, KeyType).s \notin ValidTypeNames) =>
        call.ret = AssertionResult(FALSE,
                       "Invalid type '" \o Chars(Lookup(call.config.d, KeyType).s)
                           \o "'. Must be one of: " \o TypeNamesText,
                       "fieldType", PyNone, PyNone)

\* ------------------------------------------------------------- specification: evaluate_structure

KeyB == <<"b">>
KeyX == <<"x">>

\* Schema entries: a field and the type name expected of it, one of the
\* names being none of the six.
SchemaEntries ==
    {<<f, PyStr(n)>> : f \in {KeyA, KeyB, KeyX},
                       n \in {TypeNumber, TypeString, TypeArray, TypeInteger}}

MaxSchema == 2

\* The schemas of up to n entries with distinct fields, in every order.
RECURSIVE SchemasUpTo(_)
SchemasUpTo(n) ==
    IF n = 0 THEN {<<>>}
    ELSE LET S == SchemasUpTo(n - 1)
         IN  S \cup UNION {{Append(d, e) : e \in {c \in SchemaEntries : ~HasKey(d, c[1])}} :
                                d \in S}

Schemas == {PyDict(d) : d \in SchemasUpTo(MaxSchema)} \cup {PyNone}

StructureBodies ==
    { PyDict(<< <<KeyA, PyStr(<<"5">>)>>, <<KeyB, PyList(<<>>)>> >>),
      PyDict(<< <<KeyA, PyInt(5)>>, <<KeyB, PyList(<<>>)>> >>),
      BodyEmpty }

InitStructure ==
    call \in {[op |-> "evaluate_structure", schema |-> s, response_data |-> b, ret |-> Pending] :
                  s \in Schemas, b \in StructureBodies}

EvaluateStructure ==
    /\ call.op = "evaluate_structure"
    /\ call.ret = Pending
    /\ call' = [call EXCEPT !.ret = evaluate_structure(call.schema, call.response_data)]

NextStructure == EvaluateStructure

SpecStructure == InitStructure /\ [][NextStructure]_vars

\* ------------------------------------------------------------- claims on evaluate_structure

StructureReturned == call.op = "evaluate_structure" /\ Returned

\* evaluate_field_type on the k-th entry of the schema taken as
\* {path: field, type: expected type}.
EntryVerdict(k) ==
    evaluate_field_type(
        PyDict(<< <<KeyPath, PyStr(call.schema.d[k][1])>>, <<KeyType, call.schema.d[k][2]>> >>),
        call.response_data)

FailingEntries == {k \in 1..Len(call.schema.d) : ~EntryVerdict(k).passed}

\* C17: on a non-empty schema evaluate_structure passes exactly when
\* evaluate_field_type passes for every entry; every entry is evaluated, and
\* on failure actual holds one message per failing entry, in the schema's
\* order, each prefixed by the entry's field name, and none for a passing
\* entry; an empty or absent schema gives the invalid-format verdict.
C17_StructureIsFieldTypePerEntry ==
    StructureReturned =>
        IF call.schema = PyNone \/ call.schema = PyDict(<<>>)
        THEN call.ret = AssertionResult(FALSE, "Structure assertion must have schema definition",
                                        "hasStructure", PyNone, PyNone)
        ELSE /\ call.ret.kind = "return"
             /\ call.ret.assertion_type = "hasStructure"
             /\ call.ret.passed = (FailingEntries = {})
             /\ call.ret.expected = call.schema
             /\ FailingEntries = {} => call.ret.actual = PyNone
             /\ FailingEntries # {} =>
                    /\ call.ret.actual.t = "list"
                    /\ Len(call.ret.actual.l) = Cardinality(FailingEntries)
                    /\ \A k \in FailingEntries :
                           call.ret.actual.l[Cardinality({j \in FailingEntries : j <= k})] =
                               PyText(Chars(call.schema.d[k][1]) \o ": " \o EntryVerdict(k).message)

\* C17 witness: both entries of a schema fail, the second after the first,
\* and actual holds both messages.
C17_Witness ==
    /\ StructureReturned
    /\ call.schema = PyDict(<< <<KeyA, PyStr(TypeNumber)>>, <<KeyB, PyStr(TypeString)>> >>)
    /\ call.response_data = PyDict(<< <<KeyA, PyStr(<<"5">>)>>, <<KeyB, PyList(<<>>)>> >>)
    /\ call.ret.actual =
           PyList(<<PyText("a: Field 'a' expected type 'number', got 'str'"),
                    PyText("b: Field 'b' expected type 'string', got 'list'")>>)

\* ------------------------------------------------------------- specification: two evaluations of equal rule sets

\* Rule set entries whose verdicts fail in one of the contexts, among them
\* schemas of one and of two entries.
RepeatOptions ==
    { <<KindStatusCode, PyInt(200)>>,
      <<KindResponseTime, PyDict(<< <<KeyMax, PyInt(3000)>> >>)>>,
      <<KindRequiredFields, PyList(<<PyStr(KeyA)>>)>>,
      <<KindFieldEquals, PyDict(<< <<KeyPath, PyStr(<<"a", ".", "1">>)>>, <<KeyValue, PyInt(1)>> >>)>>,
      <<KindHasStructure, PyDict(<< <<KeyA, PyStr(TypeArray)>> >>)>>,
      <<KindHasStructure, PyDict(<< <<KeyA, PyStr(TypeNumber)>>, <<KeyB, PyStr(TypeString)>> >>)>> }

RECURSIVE RepeatSetsUpTo(_)
RepeatSetsUpTo(n) ==
    IF n = 0 THEN {<<>>}
    ELSE LET S == RepeatSetsUpTo(n - 1)
         IN  S \cup UNION {{Append(d, e) : e \in {c \in RepeatOptions : ~HasKey(d, c[1])}} :
                                d \in S}

\* The sequence without its k-th entry.
Without(d, k) == SubSeq(d, 1, k - 1) \o SubSeq(d, k + 1, Len(d))

\* The mappings equal to d: the same keys with the same values, entered in
\* any order, at the top level and inside the values that are mappings.
RECURSIVE Reorderings(_)
RECURSIVE Orders(_)
Reorderings(d) ==
    IF d = <<>> THEN {<<>>}
    ELSE UNION {{<< <<d[k][1], v>> >> \o r : v \in Orders(d[k][2]), r \in Reorderings(Without(d, k))} :
                    k \in 1..Len(d)}

Orders(v) == IF v.t = "dict" THEN {PyDict(r) : r \in Reorderings(v.d)} ELSE {v}

\* Two requests: equal rule sets, the same response context.
InitRepeat ==
    call \in UNION {{[op |-> "evaluate_twice", assertions |-> PyDict(d), again |-> PyDict(e),
                      response_data |-> c.response_data, status_code |-> c.status_code,
                      response_time_ms |-> c.response_time_ms,
                      first |-> Pending, second |-> Pending] :
                         e \in Reorderings(d), c \in Contexts} : d \in RepeatSetsUpTo(MaxRules)}

\* routers/api.py lines 497-504: the verdict list and its aggregate.
Evaluated(results) ==
    IF results.kind = "raise" THEN results
    ELSE [kind |-> "return", results |-> results.results,
          overall |-> get_overall_result(results.results)]

EvaluateFirst ==
    /\ call.op = "evaluate_twice"
    /\ call.first = Pending
    /\ call' = [call EXCEPT !.first =
                   Evaluated(evaluate_all_assertions(call.assertions, call.response_data,
                                                     call.status_code, call.response_time_ms))]

EvaluateSecond ==
    /\ call.op = "evaluate_twice"
    /\ call.second = Pending
    /\ call' = [call EXCEPT !.second =
                   Evaluated(evaluate_all_assertions(call.again, call.response_data,
                                                     call.status_code, call.response_time_ms))]

NextRepeat == EvaluateFirst \/ EvaluateSecond

SpecRepeat == InitRepeat /\ [][NextRepeat]_vars

\* ------------------------------------------------------------- claims on determinism

BothReturned == call.op = "evaluate_twice" /\ call.first # Pending /\ call.second # Pending

\* Equal values, two mappings being equal when they hold the same keys with
\* equal values.
RECURSIVE SameValue(_, _)
SameValue(a, b) ==
    IF a.t = "dict" /\ b.t = "dict"
    THEN /\ Len(a.d) = Len(b.d)
         /\ \A k \in 1..Len(a.d) :
                /\ HasKey(b.d, a.d[k][1])
                /\ SameValue(a.d[k][2], Lookup(b.d, a.d[k][1]))
    ELSE IF a.t = "list" /\ b.t = "list"
    THEN /\ Len(a.l) = Len(b.l)
         /\ \A k \in 1..Len(a.l) : SameValue(a.l[k], b.l[k])
    ELSE a = b

SameVerdict(v, w) ==
    /\ v.passed = w.passed
    /\ v.message = w.message
    /\ v.assertion_type = w.assertion_type
    /\ SameValue(v.expected, w.expected)
    /\ SameValue(v.actual, w.actual)

\* C18 (as claimed): two evaluations of equal rule sets against the same
\* response context return equal verdict lists and equal aggregate results,
\* whatever the order in which a mapping's entries are enumerated, that of
\* the hasStructure schema included.
C18_EqualRuleSetsEqualVerdicts ==
    BothReturned =>
        /\ call.first.kind = call.second.kind
        /\ call.first.kind = "return" =>
               /\ Len(call.first.results) = Len(call.second.results)
               /\ \A k \in 1..Len(call.first.results) :
                      SameVerdict(call.first.results[k], call.second.results[k])
               /\ call.first.overall = call.second.overall

\* ------------------------------------------------------------- specification: concurrent callers

\* Rule sets of the callers, one of them raising at its second kind.
CallerRuleSets ==
    { PyDict(<< <<KindStatusCode, PyInt(200)>>,
                <<KindRequiredFields, PyList(<<PyStr(KeyA)>>)>> >>),
      PyDict(<< <<KindHasStructure, PyDict(<< <<KeyA, PyStr(TypeArray)>> >>)>>,
                <<KindResponseTime, PyDict(<< <<KeyMax, PyInt(3000)>> >>)>>,
                <<KindFieldType, PyNone>> >>),
      PyDict(<< <<KindForbiddenFields, PyList(<<PyStr(KeyA)>>)>>,
                <<KindArrayLength, PyInt(5)>> >>) }

\* A caller entering evaluate_all_assertions: its arguments, the if
\* statement it stands before (9: the return statement) and its results list.
Entering(assertions, c) ==
    [assertions |-> assertions, response_data |-> c.response_data,
     status_code |-> c.status_code, response_time_ms |-> c.response_time_ms,
     pc |-> 1, results |-> <<>>, ret |-> Pending]

Callers == {1, 2}

InitConcurrent ==
    call \in {[op |-> "concurrent", callers |-> <<Entering(a, c), Entering(b, e)>>] :
                  a \in CallerRuleSets, b \in CallerRuleSets, c \in Contexts, e \in Contexts}

\* results.append(r) with results the list shared by all callers.
AppendShared(callers, c, r) ==
    [k \in Callers |-> [callers[k] EXCEPT !.results = Append(@, r),
                                          !.pc = IF k = c THEN @ + 1 ELSE @]]

\* results.append(r): results is the list created at line 431 of this call.
AppendOwn(callers, c, r) ==
    [callers EXCEPT ![c].results = Append(@, r), ![c].pc = @ + 1]

\* The outcome of one evaluator call, line 435 and its seven likes.
AfterEvaluate(callers, c, r) ==
    IF r.kind = "raise" THEN [callers EXCEPT ![c].ret = r]
    ELSE AppendOwn(callers, c, r)

KindAt(pc) == EvaluationOrder(PyNone)[pc]

\* An if statement whose test is false.
SkipKind(c) ==
    /\ call.op = "concurrent"
    /\ call.callers[c].ret = Pending
    /\ call.callers[c].pc <= 8
    /\ ~IsChecked(call.callers[c].assertions, KindAt(call.callers[c].pc))
    /\ call' = [call EXCEPT !.callers[c].pc = @ + 1]

\* An if statement whose test is true.
EvaluateKind(c) ==
    /\ call.op = "concurrent"
    /\ call.callers[c].ret = Pending
    /\ call.callers[c].pc <= 8
    /\ IsChecked(call.callers[c].assertions, KindAt(call.callers[c].pc))
    /\ call' = [call EXCEPT !.callers =
                   AfterEvaluate(call.callers, c,
                       Evaluate(KindAt(call.callers[c].pc),
                                Lookup(call.callers[c].assertions.d, KindAt(call.callers[c].pc)),
                                call.callers[c].response_data, call.callers[c].status_code,
                                call.callers[c].response_time_ms))]

\* return results, line 465.
ReturnResults(c) ==
    /\ call.op = "concurrent"
    /\ call.callers[c].ret = Pending
    /\ call.callers[c].pc = 9
    /\ call' = [call EXCEPT !.callers[c].ret =
                   [kind |-> "return", results |-> call.callers[c].results]]

NextConcurrent == \E c \in Callers : SkipKind(c) \/ EvaluateKind(c) \/ ReturnResults(c)

SpecConcurrent == InitConcurrent /\ [][NextConcurrent]_vars

\* ------------------------------------------------------------- claims on concurrent callers

\* What caller c obtains running alone.
Alone(c) ==
    evaluate_all_assertions(call.callers[c].assertions, call.callers[c].response_data,
                            call.callers[c].status_code, call.callers[c].response_time_ms)

\* No step changes the rule set or the response context of any caller.
ArgumentsKept ==
    \A c \in Callers :
        /\ call'.callers[c].assertions = call.callers[c].assertions
        /\ call'.callers[c].response_data = call.callers[c].response_data
        /\ call'.callers[c].status_code = call.callers[c].status_code
        /\ call'.callers[c].response_time_ms = call.callers[c].response_time_ms

\* C19: under every interleaving of two callers each caller obtains the
\* verdict list (or the exception) it obtains running alone, and no step of
\* either caller changes the rule set or the response body of any caller.
C19_CallersDoNotInterfere ==
    /\ [](call.op = "concurrent" =>
              \A c \in Callers : call.callers[c].ret # Pending => call.callers[c].ret = Alone(c))
    /\ [][call.op = "concurrent" => ArgumentsKept]_vars

\* C19 witness: caller 1 has returned its verdicts while caller 2, with
\* another rule set, is in the middle of its own.
C19_Witness ==
    /\ call.op = "concurrent"
    /\ call.callers[1].assertions # call.callers[2].assertions
    /\ call.callers[1].ret.kind = "return"
    /\ Len(call.callers[1].ret.results) = 2
    /\ call.callers[2].ret = Pending
    /\ call.callers[2].pc \in 2..8
    /\ call.callers[2].results # <<>>

\* ------------------------------------------------------------- specification: run_test

\* A local variable no statement has assigned yet.
Unbound == [t |-> "unbound"]

\* The assertions of the tests.
TestRuleSets ==
    { PyDict(<< <<KindStatusCode, PyInt(200)>>,
                <<KindRequiredFields, PyList(<<PyStr(KeyA)>>)>> >>),
      PyDict(<< <<KindResponseTime, PyDict(<< <<KeyMax, PyInt(3000)>> >>)>> >>) }

\* What the steps of a run meet: whether the test validates, whether the
\* mutation safety checks pass, whether the token request, the data request
\* and the decoding of the body succeed, the response and the time it took.
Worlds ==
    [valid : BOOLEAN, safe : BOOLEAN, token_ok : BOOLEAN, http_ok : BOOLEAN, json_ok : BOOLEAN,
     response : Contexts]

InitRunTest ==
    call \in {[op |-> "run_test", method |-> m, assertions |-> a, world |-> w, pc |-> "validate",
               start_time |-> Unbound, token |-> Unbound, response |-> Unbound,
               response_data |-> Unbound, status_code |-> Unbound,
               response_time_ms |-> Unbound, assertion_results |-> Pending,
               result |-> Pending] :
                  m \in {"GET", "POST"}, a \in TestRuleSets, w \in Worlds}

\* A return of {"success": False, "error": ...}.
Failure(c, error) == [c EXCEPT !.pc = "done", !.result = [success |-> FALSE, error |-> error]]

\* An exception of the request swallowed, the run going on.
AfterRequestIgnoringErrors(c, ok) == [c EXCEPT !.pc = "read", !.response = c.world.response]

\* Lines 664-673 and 690-699: the response, or the exception the handler
\* of line 731 turns into a failure.
AfterRequest(c, ok) ==
    IF ok THEN [c EXCEPT !.pc = "read", !.response = c.world.response]
    ELSE Failure(c, "Test execution failed")

\* Lines 606-611.
ValidateTest ==
    /\ call.op = "run_test"
    /\ call.pc = "validate"
    /\ call' = IF ~call.world.valid THEN Failure(call, "Invalid test")
               ELSE [call EXCEPT !.pc = IF call.method = "POST" THEN "safety" ELSE "start"]

\* Lines 614-626.
CheckMutationSafety ==
    /\ call.op = "run_test"
    /\ call.pc = "safety"
    /\ call' = IF ~call.world.safe THEN Failure(call, "Mutation safety check failed")
               ELSE [call EXCEPT !.pc = "start"]

\* Line 629.
StartTiming ==
    /\ call.op = "run_test"
    /\ call.pc = "start"
    /\ call' = [call EXCEPT !.pc = "token", !.start_time = 0]

\* Lines 641-642 and 679-680.
AcquireToken ==
    /\ call.op = "run_test"
    /\ call.pc = "token"
    /\ call' = IF ~call.world.token_ok THEN Failure(call, "Test execution failed")
               ELSE [call EXCEPT !.pc = "request", !.token = PyText("token")]

\* Lines 663-673 and 689-699.
SendRequest ==
    /\ call.op = "run_test"
    /\ call.pc = "request"
    /\ call' = AfterRequest(call, call.world.http_ok)

\* Lines 675-676 and 701-702.
ReadResponse ==
    /\ call.op = "run_test"
    /\ call.pc = "read"
    /\ call' = IF ~call.world.json_ok THEN Failure(call, "Test execution failed")
               ELSE [call EXCEPT !.pc = "end",
                                 !.response_data = call.response.response_data,
                                 !.status_code = call.response.status_code]

\* Lines 705-706.
EndTiming ==
    /\ call.op = "run_test"
    /\ call.pc = "end"
    /\ call' = [call EXCEPT !.pc = "evaluate",
                            !.response_time_ms =
                                PyFloat(call.start_time + call.response.response_time_ms.f
                                            - call.start_time)]

\* Lines 709-714.
EvaluateAssertions ==
    /\ call.op = "run_test"
    /\ call.pc = "evaluate"
    /\ call' = [call EXCEPT !.pc = "reduce",
                            !.assertion_results =
                                evaluate_all_assertions(call.assertions, call.response_data,
                                                        call.status_code, call.response_time_ms)]

\* Lines 716-734.
ReturnResult ==
    /\ call.op = "run_test"
    /\ call.pc = "reduce"
    /\ call' = IF call.assertion_results.kind = "raise"
               THEN Failure(call, "Test execution failed")
               ELSE [call EXCEPT !.pc = "done",
                                 !.result =
                                     [success |-> TRUE,
                                      overall |-> get_overall_result(call.assertion_results.results),
                                      status_code |-> call.status_code,
                                      response_time_ms |-> call.response_time_ms,
                                      response_data |-> call.response_data,
                                      assertion_results |-> call.assertion_results.results]]

NextRunTest ==
    \/ ValidateTest
    \/ CheckMutationSafety
    \/ StartTiming
    \/ AcquireToken
    \/ SendRequest
    \/ ReadResponse
    \/ EndTiming
    \/ EvaluateAssertions
    \/ ReturnResult

SpecRunTest == InitRunTest /\ [][NextRunTest]_vars

\* ------------------------------------------------------------- claims on run_test

EngineInvoked == call.assertion_results # Pending

\* The response context the engine takes: token acquired, request answered,
\* body and status code read, response time computed.
Materialized ==
    /\ call.token # Unbound
    /\ call.response # Unbound
    /\ call.response_data = call.world.response.response_data
    /\ call.status_code = call.world.response.status_code
    /\ call.response_time_ms = call.world.response.response_time_ms

\* A step before the engine fails.
StepFails ==
    \/ ~call.world.valid
    \/ call.method = "POST" /\ ~call.world.safe
    \/ ~call.world.token_ok
    \/ ~call.world.http_ok
    \/ ~call.world.json_ok

\* C20: in run_test evaluate_all_assertions is invoked only after the token
\* was acquired, the request answered, body and status code read and the
\* response time computed, and with these values; when one of these steps
\* fails the engine is never invoked and the run ends in an execution error,
\* not in a verdict list.
C20_EngineAfterContext ==
    /\ [](call.op = "run_test" =>
              /\ EngineInvoked =>
                     /\ Materialized
                     /\ ~StepFails
                     /\ call.assertion_results =
                            evaluate_all_assertions(call.assertions, call.response_data,
                                                    call.status_code, call.response_time_ms)
              /\ StepFails =>
                     /\ ~EngineInvoked
                     /\ call.result # Pending => ~call.result.success)
    /\ [][(call.op = "run_test" /\ ~EngineInvoked /\ call'.assertion_results # Pending)
              => Materialized]_vars

\* C20 witness: a run whose steps all succeed has invoked the engine on the
\* response and returned its verdicts.
C20_Witness ==
    /\ call.op = "run_test"
    /\ call.pc = "done"
    /\ call.method = "POST"
    /\ Materialized
    /\ call.result.success
    /\ call.result.assertion_results # <<>>

\* ------------------------------------------------------------- specification: failure causes of evaluate_array_length

\* Configurations without a path, with a path that is in no body, and with
\* the path items; min absent, 2, or a str no length compares with; max
\* absent or 1.
CauseConfigs ==
    {PyDict(p \o lo \o hi) :
         p \in {<<>>, << <<KeyPath, PyStr(KeyX)>> >>, << <<KeyPath, PyStr(KeyItems)>> >>},
         lo \in {<<>>, << <<KeyMin, PyInt(2)>> >>, << <<KeyMin, PyStr(<<"2">>)>> >>},
         hi \in {<<>>, << <<KeyMax, PyInt(1)>> >>}}

\* Bodies whose items is an array, a str, a number, null, an object, or absent.
CauseBodies ==
    {PyDict(<< <<KeyItems, v>> >>) :
         v \in {PyList(<<>>), PyList(<<PyInt(1)>>), PyList(<<PyInt(1), PyInt(2)>>),
                PyList(<<PyInt(1), PyInt(2), PyInt(3)>>),
                PyStr(<<"x">>), PyInt(5), PyNone, PyDict(<<>>)}}
    \cup {BodyEmpty}

InitCauses ==
    call \in {[op |-> "array_length_causes", config |-> c, response_data |-> b, ret |-> Pending] :
                  c \in CauseConfigs, b \in CauseBodies}

EvaluateLengthCause ==
    /\ call.op = "array_length_causes"
    /\ call.ret = Pending
    /\ call' = [call EXCEPT !.ret = evaluate_array_length(call.config, call.response_data)]

NextCauses == EvaluateLengthCause

SpecCauses == InitCauses /\ [][NextCauses]_vars

\* ------------------------------------------------------------- claims on the failure causes

CausesReturned == call.op = "array_length_causes" /\ Returned

\* The configured path names a key of the body.
CauseResolves ==
    /\ HasKey(call.config.d, KeyPath)
    /\ HasKey(call.response_data.d, Lookup(call.config.d, KeyPath).s)

CauseValue == Lookup(call.response_data.d, Lookup(call.config.d, KeyPath).s)

\* min is a str, which no length compares with.
MinIsText == HasKey(call.config.d, KeyMin) /\ Lookup(call.config.d, KeyMin).t = "str"

\* The message of the one cause the claim ranks first for the call.
FirstCause ==
    IF ~HasKey(call.config.d, KeyPath) THEN "Array length assertion must have 'path' key"
    ELSE IF ~CauseResolves
    THEN "Field '" \o Chars(Lookup(call.config.d, KeyPath).s) \o "' not found in response"
    ELSE IF CauseValue.t # "list"
    THEN "Field 'items' is not an array (got " \o Chars(TypeNameChars(CauseValue)) \o ")"
    ELSE IF HasKey(call.config.d, KeyMin) /\ Len(CauseValue.l) < Lookup(call.config.d, KeyMin).i
    THEN "Array 'items' length " \o ToString(Len(CauseValue.l)) \o " is less than min 2"
    ELSE IF HasKey(call.config.d, KeyMax) /\ Len(CauseValue.l) > Lookup(call.config.d, KeyMax).i
    THEN "Array 'items' length " \o ToString(Len(CauseValue.l)) \o " exceeds max 1"
    ELSE "Array 'items' length " \o ToString(Len(CauseValue.l)) \o " is valid"

\* C21: evaluate_array_length reports one cause, in the precedence missing
\* path (expected and actual unset), unresolved path (actual null), value
\* that is no array (actual its type name), min violation, max violation;
\* bounds are never compared for a value that is no array, so a bound no
\* length compares with does not matter there.
C21_CausePrecedence ==
    (CausesReturned /\ ~(MinIsText /\ CauseResolves /\ CauseValue.t = "list")) =>
        /\ call.ret.kind = "return"
        /\ call.ret.message = FirstCause
        /\ ~HasKey(call.config.d, KeyPath) =>
               /\ ~call.ret.passed /\ call.ret.expected = PyNone /\ call.ret.actual = PyNone
        /\ (HasKey(call.config.d, KeyPath) /\ ~CauseResolves) =>
               /\ ~call.ret.passed /\ call.ret.expected = call.config /\ call.ret.actual = PyNone
        /\ (CauseResolves /\ CauseValue.t # "list") =>
               /\ ~call.ret.passed
               /\ call.ret.actual = PyStr(TypeNameChars(CauseValue))

\* C21 witness: a str under a configuration whose min is a str and whose
\* max it would exceed is reported as no array.
C21_Witness ==
    /\ CausesReturned
    /\ MinIsText
    /\ HasKey(call.config.d, KeyMax)
    /\ CauseResolves
    /\ CauseValue = PyStr(<<"x">>)
    /\ call.ret.kind = "return"
    /\ call.ret.message = "Field 'items' is not an array (got str)"
    /\ call.ret.actual = PyStr(<<"s", "t", "r">>)

\* ------------------------------------------------------------- specification: configurations with and without their keys

\* path: absent, empty, a key of the bodies, a key of no body.
FormatPaths ==
    {<<>>, << <<KeyPath, PyStr(<<>>)>> >>, << <<KeyPath, PyStr(KeyA)>> >>,
     << <<KeyPath, PyStr(KeyX)>> >>}

FormatConfigs ==
    [arrayLength |-> {PyDict(p \o << <<KeyMin, PyInt(1)>> >>) : p \in FormatPaths},
     fieldEquals |-> {PyDict(p \o << <<KeyValue, v>> >>) : p \in FormatPaths, v \in {PyInt(1), PyNone}},
     fieldType |-> {PyDict(p \o t) :
                        p \in FormatPaths,
                        t \in {<<>>, << <<KeyType, PyStr(TypeNumber)>> >>,
                               << <<KeyType, PyStr(TypeArray)>> >>}}]

\* Bodies with the empty key and the key a, and the empty body.
FormatBodies ==
    { PyDict(<< <<<<>>, PyInt(1)>>, <<KeyA, PyInt(1)>> >>),
      PyDict(<< <<<<>>, PyList(<<PyInt(1)>>)>>, <<KeyA, PyList(<<PyInt(1)>>)>> >>),
      PyDict(<< <<KeyA, PyStr(<<"s">>)>> >>),
      BodyEmpty }

InitFormat ==
    call \in UNION {{[op |-> "format", rule |-> k, config |-> c, response_data |-> b,
                      ret |-> Pending] : c \in FormatConfigs[k], b \in FormatBodies} :
                        k \in {"arrayLength", "fieldEquals", "fieldType"}}

FormatArrayLength ==
    /\ call.op = "format"
    /\ call.rule = "arrayLength"
    /\ call.ret = Pending
    /\ call' = [call EXCEPT !.ret = evaluate_array_length(call.config, call.response_data)]

FormatFieldEquals ==
    /\ call.op = "format"
    /\ call.rule = "fieldEquals"
    /\ call.ret = Pending
    /\ call' = [call EXCEPT !.ret = evaluate_field_equals(call.config, call.response_data)]

FormatFieldType ==
    /\ call.op = "format"
    /\ call.rule = "fieldType"
    /\ call.ret = Pending
    /\ call' = [call EXCEPT !.ret = evaluate_field_type(call.config, call.response_data)]

NextFormat == FormatArrayLength \/ FormatFieldEquals \/ FormatFieldType

SpecFormat == InitFormat /\ [][NextFormat]_vars

\* ------------------------------------------------------------- claims on the invalid-format verdicts

FormatReturned == call.op = "format" /\ Returned

\* The invalid-format verdict of each of the three rules.
InvalidFormat ==
    [arrayLength |-> AssertionResult(FALSE, "Array length assertion must have 'path' key",
                                     "arrayLength", PyNone, PyNone),
     fieldEquals |-> AssertionResult(FALSE, "Field equals assertion must have 'path' key",
                                     "fieldEquals", PyNone, PyNone),
     fieldType |-> AssertionResult(FALSE, "Field type assertion must have 'path' and 'type' keys",
                                   "fieldType", PyNone, PyNone)]

RequiredKeyMissing ==
    \/ ~HasKey(call.config.d, KeyPath)
    \/ call.rule = "fieldType" /\ ~HasKey(call.config.d, KeyType)

\* C22 (as claimed): arrayLength, fieldEquals and fieldType return their
\* invalid-format verdict exactly when a required key is missing; a path
\* that is present, the empty path included, is resolved against the body
\* and the verdict reports on the data.
C22_InvalidFormatIffKeyMissing ==
    FormatReturned =>
        /\ call.ret.kind = "return"
        /\ (call.ret = InvalidFormat[call.rule]) <=> RequiredKeyMissing

\* ------------------------------------------------------------- claims on the type null

\* evaluate_field_type was asked for the type null.
NullReturned == TypeReturned /\ Lookup(call.config.d, KeyType) = PyStr(TypeNull)

\* C23: with type "null" evaluate_field_type passes exactly when the path
\* resolves to JSON null; it fails for 0, false, "", [] and {} and every
\* other value, and for a path that does not resolve.
C23_NullOnlyForResolvedNull ==
    NullReturned =>
        /\ call.ret.kind = "return"
        /\ call.ret.passed = (/\ HasKey(call.response_data.d, KeyA)
                              /\ Lookup(call.response_data.d, KeyA) = PyNone)
        /\ ~HasKey(call.response_data.d, KeyA) =>
               call.ret.message = "Field 'a' not found in response"

\* C23 witness: an absent field fails the type null.
C23_Witness ==
    /\ NullReturned
    /\ call.response_data = BodyEmpty
    /\ ~call.ret.passed
    /\ call.ret.actual = PyNone

\* ============================================================= upload_schemas.py

\* The keys of payloads, schemas and test definitions are written as whole
\* strings, as are endpoint, method and environment names.

\* UPLOAD_SCHEMAS[endpoint]["fields"], in the mapping's order.
Field(name, type, required) == [name |-> name, type |-> type, required |-> required]

UPLOAD_SCHEMAS ==
    [customers |->
         <<Field("firmName", "string", FALSE), Field("contactName", "string", FALSE),
           Field("customerCode", "string", FALSE), Field("mobile", "string", FALSE),
           Field("email", "string", FALSE), Field("billingAddress", "string", FALSE),
           Field("gstNumber", "string", FALSE), Field("creditLimit", "number", FALSE),
           Field("creditDays", "number", FALSE), Field("pincode", "string", FALSE),
           Field("city", "string", FALSE), Field("state", "string", FALSE),
           Field("priceListCode", "string", FALSE), Field("routes", "array", FALSE),
           Field("segments", "array", FALSE), Field("cfa", "array", FALSE)>>,
     products |->
         <<Field("productName", "string", TRUE), Field("skuCode", "string", TRUE),
           Field("taxCategory", "string", FALSE), Field("packSize", "string", FALSE),
           Field("displayOrder", "string", FALSE), Field("grossWeight", "string", FALSE),
           Field("netWeight", "string", FALSE), Field("mrp", "number", FALSE),
           Field("price", "number", FALSE), Field("ptr", "number", FALSE),
           Field("isEnabled", "boolean", FALSE), Field("caseSize", "string", FALSE),
           Field("maxOrderQuantity", "string", FALSE), Field("baseUnit", "string", FALSE),
           Field("quantityMultiplier", "string", FALSE), Field("categoryCode", "string", FALSE),
           Field("productImages", "array", FALSE), Field("shortDescription", "string", FALSE),
           Field("upcCode", "string", FALSE), Field("hsnCode", "string", FALSE),
           Field("cfa", "array", FALSE), Field("erpId", "string", FALSE),
           Field("additionalUnit", "string", FALSE), Field("parentSku", "string", FALSE)>>,
     pricelist |->
         <<Field("name", "string", TRUE), Field("code", "string", TRUE),
           Field("products", "array", TRUE), Field("startDate", "string", FALSE),
           Field("endDate", "string", FALSE), Field("targetType", "string", FALSE)>>]

\* _check_type(value, expected_type)
_check_type(value, expected_type) ==
    CASE expected_type = "string" -> value.t = "str"
      [] expected_type = "number" -> value.t \in {"int", "float"}
      [] expected_type = "boolean" -> value.t = "bool"
      [] expected_type = "array" -> value.t = "list"
      [] expected_type = "object" -> value.t = "dict"
      [] OTHER -> FALSE

HasField(fields, name) == \E k \in 1..Len(fields) : fields[k].name = name

FieldNamed(fields, name) == fields[CHOOSE k \in 1..Len(fields) : fields[k].name = name]

\* Lines 156-158: the required fields the item lacks, in the schema's order.
RECURSIVE RequiredErrors(_, _, _)
RequiredErrors(idx, item, fields) ==
    IF fields = <<>> THEN <<>>
    ELSE (IF Head(fields).required /\ ~HasKey(item.d, Head(fields).name)
          THEN <<"Item " \o ToString(idx) \o ": Missing required field: " \o Head(fields).name>>
          ELSE <<>>)
         \o RequiredErrors(idx, item, Tail(fields))

\* Lines 162-173, one field of the item.
FieldError(idx, field_name, value, fields) ==
    IF ~HasField(fields, field_name)
    THEN <<"Item " \o ToString(idx) \o ": Unknown field: " \o field_name>>
    ELSE IF value = PyNone \/ value = PyStr(<<>>) THEN <<>>
    ELSE IF ~_check_type(value, FieldNamed(fields, field_name).type)
    THEN <<"Item " \o ToString(idx) \o ": Invalid type for '" \o field_name \o "': expected "
               \o FieldNamed(fields, field_name).type \o ", got " \o value.t>>
    ELSE <<>>

\* Lines 161-173: the loop over the item's fields, in the item's order.
RECURSIVE FieldErrors(_, _, _)
FieldErrors(idx, entries, fields) ==
    IF entries = <<>> THEN <<>>
    ELSE FieldError(idx, Head(entries)[1], Head(entries)[2], fields)
         \o FieldErrors(idx, Tail(entries), fields)

\* Lines 150-173: the loop over the items; idx counts from 0.
RECURSIVE ItemErrors(_, _, _)
ItemErrors(idx, items, fields) ==
    IF items = <<>> THEN <<>>
    ELSE (IF Head(items).t # "dict"
          THEN <<"Item " \o ToString(idx) \o " must be an object">>
          ELSE RequiredErrors(idx, Head(items), fields)
               \o FieldErrors(idx, Head(items).d, fields))
         \o ItemErrors(idx + 1, Tail(items), fields)

\* The dict {"valid": ..., "errors": [...]} validate_payload returns.
Validation(valid, errors) == << <<"valid", valid>>, <<"errors", errors>> >>

wrapper_key(endpoint) == IF endpoint = "pricelist" THEN "priceList" ELSE endpoint

\* validate_payload(endpoint, payload)
validate_payload(endpoint, payload) ==
    IF endpoint \notin DOMAIN UPLOAD_SCHEMAS
    THEN Validation(FALSE, <<"Unknown endpoint: " \o endpoint>>)
    ELSE IF ~HasKey(payload.d, wrapper_key(endpoint))
    THEN Validation(FALSE, <<"Payload must contain '" \o wrapper_key(endpoint)
                                  \o "' key with array of items">>)
    ELSE IF Lookup(payload.d, wrapper_key(endpoint)).t # "list"
    THEN Validation(FALSE, <<"'" \o wrapper_key(endpoint) \o "' must be an array">>)
    ELSE Validation(ItemErrors(0, Lookup(payload.d, wrapper_key(endpoint)).l,
                               UPLOAD_SCHEMAS[endpoint]) = <<>>,
                    ItemErrors(0, Lookup(payload.d, wrapper_key(endpoint)).l,
                               UPLOAD_SCHEMAS[endpoint]))

\* ============================================================= mutation_safety.py

\* The whitelist without the pricelist.
WhitelistOfTwo == <<"customers", "products">>

POST_WHITELIST == <<"customers", "products", "pricelist">>

ALLOW_PROD_MUTATIONS == FALSE

\* The (is_valid, error_message) tuples of the checks.
Valid == [is_valid |-> TRUE, error |-> PyNone]

Invalid(error) == [is_valid |-> FALSE, error |-> PyText(error)]

\* validate_post_endpoint(endpoint)
validate_post_endpoint(endpoint) ==
    IF \A k \in 1..Len(POST_WHITELIST) : POST_WHITELIST[k] # endpoint
    THEN Invalid("Endpoint '" \o endpoint \o "' does not support POST operations. "
                     \o "Allowed: ['customers', 'products', 'pricelist']")
    ELSE Valid

\* validate_mutation_flag(allow_mutation, method)
validate_mutation_flag(allow_mutation, method) ==
    IF method = "POST" /\ ~Truthy(allow_mutation)
    THEN Invalid("POST operations require allowMutation=true in test definition")
    ELSE Valid

\* validate_environment(environment, method)
validate_environment(environment, method) ==
    IF method = "POST" /\ environment = "prod" /\ ~ALLOW_PROD_MUTATIONS
    THEN Invalid("Production mutations are blocked. Please use QA environment for testing.")
    ELSE Valid

\* validate_payload_format(endpoint, payload)
validate_payload_format(endpoint, payload) ==
    IF endpoint = "pricelist" /\ ~HasKey(payload.d, "priceList")
    THEN Invalid("Pricelist payload must have 'priceList' wrapper: {\"priceList\": [...]}")
    ELSE IF endpoint = "customers" /\ ~HasKey(payload.d, "customers")
    THEN Invalid("Customers payload must have 'customers' wrapper: {\"customers\": [...]}")
    ELSE IF endpoint = "products" /\ ~HasKey(payload.d, "products")
    THEN Invalid("Products payload must have 'products' wrapper: {\"products\": [...]}")
    ELSE Valid

\* result[key] on a dict: the value, or the KeyError of a key it lacks.
Subscript(result, key) ==
    IF HasKey(result, key) THEN [kind |-> "return", value |-> Lookup(result, key)]
    ELSE Raise([type |-> "KeyError", text |-> "'" \o key \o "'"])

\* Lines 115-118 on the value of result["success"].
SchemaVerdict(result, success) ==
    IF success.kind = "raise" THEN Invalid("Schema validation error: " \o success.exc.text)
    ELSE IF ~success.value
    THEN (IF HasKey(result, "error") THEN Invalid(Lookup(result, "error"))
          ELSE Invalid("Payload validation failed"))
    ELSE Valid

\* validate_payload_schema(endpoint, payload): the exception of line 115 is
\* caught at line 120.
validate_payload_schema(endpoint, payload) ==
    SchemaVerdict(validate_payload(endpoint, payload),
                  Subscript(validate_payload(endpoint, payload), "success"))

\* environment.upper() on the environments of the tests.
upper(environment) == IF environment = "qa" THEN "QA" ELSE "PROD"

\* data_array[:3]
FirstThree(l) == IF Len(l) <= 3 THEN l ELSE SubSeq(l, 1, 3)

\* Lines 141-164 on the data array.
ConfirmationOf(endpoint, environment, data_array) ==
    [endpoint |-> endpoint,
     environment |-> upper(environment),
     item_count |-> IF data_array.t = "list" THEN Len(data_array.l) ELSE 0,
     preview_items |-> IF data_array.t = "list" THEN FirstThree(data_array.l) ELSE <<>>,
     warning |-> "This will modify "
                     \o ToString(IF data_array.t = "list" THEN Len(data_array.l) ELSE 0)
                     \o " item(s) in " \o upper(environment) \o " environment"]

\* get_mutation_confirmation_data(endpoint, environment, payload)
get_mutation_confirmation_data(endpoint, environment, payload) ==
    ConfirmationOf(endpoint, environment,
                   IF /\ endpoint \in {"pricelist", "customers", "products"}
                      /\ HasKey(payload.d, wrapper_key(endpoint))
                   THEN Lookup(payload.d, wrapper_key(endpoint))
                   ELSE PyList(<<>>))

\* The (is_safe, error_message, confirmation_data) tuple.
Safety(is_safe, error, confirmation_data) ==
    [is_safe |-> is_safe, error |-> error, confirmation_data |-> confirmation_data]

\* Every method but GET checked.
ExemptGet(method) == method = "GET"

\* Line 187: only POST operations are checked.
Exempt(method) == method # "POST"

\* The checks in another order: the environment first.
SafetyChecksEnvironmentFirst(endpoint, method, environment, payload, allow_mutation) ==
    IF ~validate_environment(environment, method).is_valid
    THEN Safety(FALSE, validate_environment(environment, method).error, PyNone)
    ELSE IF ~validate_post_endpoint(endpoint).is_valid
    THEN Safety(FALSE, validate_post_endpoint(endpoint).error, PyNone)
    ELSE IF ~validate_mutation_flag(allow_mutation, method).is_valid
    THEN Safety(FALSE, validate_mutation_flag(allow_mutation, method).error, PyNone)
    ELSE IF ~Truthy(payload)
    THEN Safety(FALSE, PyText("POST requests must have a payload"), PyNone)
    ELSE IF ~validate_payload_format(endpoint, payload).is_valid
    THEN Safety(FALSE, validate_payload_format(endpoint, payload).error, PyNone)
    ELSE IF ~validate_payload_schema(endpoint, payload).is_valid
    THEN Safety(FALSE, validate_payload_schema(endpoint, payload).error, PyNone)
    ELSE Safety(TRUE, PyNone, get_mutation_confirmation_data(endpoint, environment, payload))

\* Lines 190-222: the checks of a POST, each returning at its failure.
SafetyChecks(endpoint, method, environment, payload, allow_mutation) ==
    IF ~validate_post_endpoint(endpoint).is_valid
    THEN Safety(FALSE, validate_post_endpoint(endpoint).error, PyNone)
    ELSE IF ~validate_mutation_flag(allow_mutation, method).is_valid
    THEN Safety(FALSE, validate_mutation_flag(allow_mutation, method).error, PyNone)
    ELSE IF ~validate_environment(environment, method).is_valid
    THEN Safety(FALSE, validate_environment(environment, method).error, PyNone)
    ELSE IF ~Truthy(payload)
    THEN Safety(FALSE, PyText("POST requests must have a payload"), PyNone)
    ELSE IF ~validate_payload_format(endpoint, payload).is_valid
    THEN Safety(FALSE, validate_payload_format(endpoint, payload).error, PyNone)
    ELSE IF ~validate_payload_schema(endpoint, payload).is_valid
    THEN Safety(FALSE, validate_payload_schema(endpoint, payload).error, PyNone)
    ELSE Safety(TRUE, PyNone, get_mutation_confirmation_data(endpoint, environment, payload))

\* perform_mutation_safety_checks(endpoint, method, environment, payload, allow_mutation)
perform_mutation_safety_checks(endpoint, method, environment, payload, allow_mutation) ==
    IF Exempt(method) THEN Safety(TRUE, PyNone, PyNone)
    ELSE SafetyChecks(endpoint, method, environment, payload, allow_mutation)

\* ------------------------------------------------------------- validate_payload_schema, called

\* The endpoints of ENDPOINTS_CONFIG and one it lacks.
EndpointNames ==
    {"customers", "products", "orders", "trips", "supply-tracker", "salesman-attendance",
     "pricelist", "invoices"}

Wrapped(key, items) == PyDict(<< <<key, PyList(items)>> >>)

Item(name, value) == PyDict(<< <<name, value>> >>)

TextA == PyStr(<<"A">>)

\* Payloads: empty, wrapped under the right, a wrong and a miscased key,
\* with items that follow the schema and items that break it.
SchemaPayloads ==
    { PyDict(<<>>),
      Wrapped("customers", <<>>),
      Wrapped("customers", <<Item("firmName", TextA)>>),
      Wrapped("customers", <<Item("firmName", PyInt(1))>>),
      Wrapped("customers", <<Item("creditLimit", PyBool(TRUE))>>),
      Wrapped("customers", <<Item("firmName", PyNone), Item("gstNumber", PyStr(<<>>))>>),
      Wrapped("customers", <<Item("bogus", TextA)>>),
      Wrapped("customers", <<PyInt(1)>>),
      PyDict(<< <<"customers", PyDict(<<>>)>> >>),
      Wrapped("products", <<>>),
      Wrapped("products", <<PyDict(<< <<"productName", TextA>>, <<"skuCode", TextA>> >>)>>),
      Wrapped("products", <<Item("productName", TextA)>>),
      Wrapped("priceList", <<>>),
      Wrapped("priceList", <<PyDict(<< <<"name", TextA>>, <<"code", TextA>>,
                                       <<"products", PyList(<<>>)>> >>)>>),
      Wrapped("pricelist", <<>>) }

InitSchema ==
    call \in {[op |-> "validate_payload_schema", endpoint |-> e, payload |-> p, ret |-> Pending] :
                  e \in EndpointNames, p \in SchemaPayloads}

ValidatePayloadSchema ==
    /\ call.op = "validate_payload_schema"
    /\ call.ret = Pending
    /\ call' = [call EXCEPT !.ret = [kind |-> "return",
                                     value |-> validate_payload_schema(call.endpoint,
                                                                       call.payload)]]

NextSchema == ValidatePayloadSchema

SpecSchema == InitSchema /\ [][NextSchema]_vars

\* validate_payload_schema has returned.
SchemaReturned == call.op = "validate_payload_schema" /\ call.ret # Pending

\* What validate_payload reports on the call's payload.
UploadReport == validate_payload(call.endpoint, call.payload)

\* C24 (as claimed): validate_payload_schema returns (True, None) exactly
\* when validate_payload reports the payload valid, and (False, error)
\* otherwise.
C24_SchemaAgreesWithUpload ==
    SchemaReturned =>
        IF Lookup(UploadReport, "valid") THEN call.ret.value = Valid
        ELSE /\ ~call.ret.value.is_valid
             /\ call.ret.value.error # PyNone

\* ------------------------------------------------------------- perform_mutation_safety_checks, called

MethodNames == {"GET", "POST", "PUT"}

EnvironmentNames == {"qa", "prod"}

\* No payload, an empty one, and payloads with and without the wrapper key.
SafetyPayloads ==
    { PyNone,
      PyDict(<<>>),
      Wrapped("customers", <<>>),
      Wrapped("customers", <<Item("firmName", TextA)>>),
      Wrapped("products", <<Item("productName", TextA)>>),
      Wrapped("priceList", <<>>),
      Wrapped("pricelist", <<>>) }

InitSafety ==
    call \in {[op |-> "perform_mutation_safety_checks", endpoint |-> e, method |-> m,
               environment |-> v, payload |-> p, allow_mutation |-> PyBool(a),
               ret |-> Pending] :
                  e \in EndpointNames, m \in MethodNames, v \in EnvironmentNames,
                  p \in SafetyPayloads, a \in BOOLEAN}

PerformMutationSafetyChecks ==
    /\ call.op = "perform_mutation_safety_checks"
    /\ call.ret = Pending
    /\ call' = [call EXCEPT !.ret =
                    [kind |-> "return",
                     value |-> perform_mutation_safety_checks(call.endpoint, call.method,
                                                              call.environment, call.payload,
                                                              call.allow_mutation)]]

NextSafety == PerformMutationSafetyChecks

SpecSafety == InitSafety /\ [][NextSafety]_vars

\* ------------------------------------------------------------- claims on the safety checks

SafetyReturned == call.op = "perform_mutation_safety_checks" /\ call.ret # Pending

Whitelisted == call.endpoint \in {"customers", "products", "pricelist"}

HasWrapper ==
    /\ call.payload.t = "dict"
    /\ call.payload.d # <<>>
    /\ HasKey(call.payload.d, IF call.endpoint = "pricelist" THEN "priceList" ELSE call.endpoint)

\* C25: for a POST is_safe is True only if the endpoint is whitelisted,
\* allowMutation is true, the environment is not prod and the payload is
\* non-empty and carries the endpoint's wrapper key; any other method gets
\* (True, None, None) whatever the endpoint, environment and payload; and
\* with is_safe False the confirmation data is None and the error is not.
C25_SafeOnlyIfGuarded ==
    SafetyReturned =>
        /\ (/\ call.method = "POST"
            /\ \/ ~Whitelisted
               \/ call.allow_mutation # PyBool(TRUE)
               \/ call.environment = "prod"
               \/ ~HasWrapper) => ~call.ret.value.is_safe
        /\ call.method # "POST" => call.ret.value = Safety(TRUE, PyNone, PyNone)
        /\ ~call.ret.value.is_safe =>
               /\ call.ret.value.confirmation_data = PyNone
               /\ call.ret.value.error # PyNone

\* C25 witness: a POST to prod, whitelisted, flagged and wrapped, is unsafe
\* and carries an error and no confirmation data.
C25_Witness ==
    /\ SafetyReturned
    /\ call.method = "POST"
    /\ call.environment = "prod"
    /\ Whitelisted /\ HasWrapper /\ call.allow_mutation = PyBool(TRUE)
    /\ ~call.ret.value.is_safe
    /\ call.ret.value.error # PyNone
    /\ call.ret.value.confirmation_data = PyNone


\* The checks of a POST in the order of the claim, each judged on the
\* arguments alone, and the error each reports.
FailedChecks ==
    (IF ~Whitelisted THEN <<"whitelist">> ELSE <<>>)
    \o (IF call.allow_mutation # PyBool(TRUE) THEN <<"flag">> ELSE <<>>)
    \o (IF call.environment = "prod" THEN <<"environment">> ELSE <<>>)
    \o (IF ~Truthy(call.payload) THEN <<"payload">> ELSE <<>>)
    \o (IF Truthy(call.payload) /\ ~HasWrapper /\ Whitelisted THEN <<"format">> ELSE <<>>)
    \o (IF Truthy(call.payload) /\ ~validate_payload_schema(call.endpoint, call.payload).is_valid
        THEN <<"schema">> ELSE <<>>)

ErrorOf(check) ==
    CASE check = "whitelist" ->
             PyText("Endpoint '" \o call.endpoint \o "' does not support POST operations. "
                        \o "Allowed: ['customers', 'products', 'pricelist']")
      [] check = "flag" ->
             PyText("POST operations require allowMutation=true in test definition")
      [] check = "environment" ->
             PyText("Production mutations are blocked. Please use QA environment for testing.")
      [] check = "payload" -> PyText("POST requests must have a payload")
      [] check = "format" -> validate_payload_format(call.endpoint, call.payload).error
      [] check = "schema" -> validate_payload_schema(call.endpoint, call.payload).error

\* C26: the checks of a POST run in the order whitelist, allowMutation flag,
\* environment, payload presence and wrapper format, schema; the result is
\* unsafe with the error of the earliest check that fails, whatever the
\* later checks would say, and safe only when none fails.
C26_EarliestFailureReported ==
    (SafetyReturned /\ call.method = "POST") =>
        IF FailedChecks = <<>> THEN call.ret.value.is_safe
        ELSE call.ret.value = Safety(FALSE, ErrorOf(Head(FailedChecks)), PyNone)

\* C26 witness: a POST to an endpoint off the whitelist, in prod and without
\* allowMutation, fails three checks and reports the whitelist's error.
C26_Witness ==
    /\ SafetyReturned
    /\ call.method = "POST"
    /\ call.endpoint = "orders"
    /\ call.environment = "prod"
    /\ call.allow_mutation = PyBool(FALSE)
    /\ Len(FailedChecks) >= 3
    /\ call.ret.value.error =
           PyText("Endpoint 'orders' does not support POST operations. "
                      \o "Allowed: ['customers', 'products', 'pricelist']")


\* ============================================================= config.py

Capabilities(pagination, time_period, periods, upload) ==
    [supports_pagination |-> pagination, supports_time_period |-> time_period,
     allowed_time_periods |-> periods, supports_upload |-> upload]

\* ENDPOINTS_CONFIG: the capabilities of each endpoint.
ENDPOINTS_CONFIG ==
    ("customers" :> Capabilities(TRUE, TRUE, <<"7", "30", "90">>, TRUE))
    @@ ("products" :> Capabilities(TRUE, FALSE, <<>>, TRUE))
    @@ ("orders" :> Capabilities(TRUE, TRUE, <<"7", "30", "90">>, FALSE))
    @@ ("trips" :> Capabilities(TRUE, TRUE, <<"7", "30", "90">>, FALSE))
    @@ ("supply-tracker" :> Capabilities(TRUE, TRUE, <<"7", "30", "90">>, FALSE))
    @@ ("salesman-attendance" :> Capabilities(TRUE, FALSE, <<>>, FALSE))
    @@ ("pricelist" :> Capabilities(TRUE, FALSE, <<>>, TRUE))

\* ============================================================= models.py

\* d.get(key, default)
GetOr(d, key, default) == IF HasKey(d, key) THEN Lookup(d, key) ELSE default

\* One entry of ValidationError.errors(): the dotted location and the message.
FieldProblem(loc, msg) == [loc |-> loc, msg |-> msg]

\* A required str field.
RequiredText(d, key) ==
    IF ~HasKey(d, key) THEN <<FieldProblem(key, "Field required")>>
    ELSE IF Lookup(d, key).t # "str" THEN <<FieldProblem(key, "Input should be a valid string")>>
    ELSE <<>>

\* A required Literal field.
RequiredLiteral(d, key, allowed, msg) ==
    IF ~HasKey(d, key) THEN <<FieldProblem(key, "Field required")>>
    ELSE IF Lookup(d, key) \notin {PyText(a) : a \in allowed} THEN <<FieldProblem(key, msg)>>
    ELSE <<>>

\* Lines 64-70: validate_endpoint, run on a str.
validate_endpoint(d) ==
    IF RequiredText(d, "endpoint") # <<>> THEN RequiredText(d, "endpoint")
    ELSE IF Lookup(d, "endpoint").text \notin DOMAIN ENDPOINTS_CONFIG
    THEN <<FieldProblem("endpoint",
                        "Value error, Invalid endpoint: " \o Lookup(d, "endpoint").text
                            \o ". Must be one of ['customers', 'products', 'orders', 'trips', "
                            \o "'supply-tracker', 'salesman-attendance', 'pricelist']")>>
    ELSE <<>>

\* Lines 54-62: the problems of the fields, in the order of their declaration.
\* params holds ints or nothing, payload is a dict or None, assertions a dict.
FieldProblems(d) ==
    RequiredText(d, "id")
    \o RequiredText(d, "name")
    \o RequiredLiteral(d, "environment", {"qa", "prod"}, "Input should be 'qa' or 'prod'")
    \o validate_endpoint(d)
    \o RequiredLiteral(d, "method", {"GET", "POST"}, "Input should be 'GET' or 'POST'")
    \o (IF ~HasKey(d, "assertions") THEN <<FieldProblem("assertions", "Field required")>>
        ELSE <<>>)

\* The TestDefinition of valid fields, the defaults of lines 59-62 filled in.
Parsed(d) ==
    [id |-> Lookup(d, "id").text,
     name |-> Lookup(d, "name").text,
     environment |-> Lookup(d, "environment").text,
     endpoint |-> Lookup(d, "endpoint").text,
     method |-> Lookup(d, "method").text,
     params |-> GetOr(d, "params", PyNone),
     payload |-> GetOr(d, "payload", PyNone),
     assertions |-> Lookup(d, "assertions"),
     allowMutation |-> GetOr(d, "allowMutation", PyBool(FALSE)).b]

\* self.params.<name>, None when not given.
Param(self, name) == GetOr(self.params.d, name, PyNone)

\* Lines 87-102 for params that are given.
ParamsError(self, endpoint_config) ==
    IF /\ (Param(self, "pageSize") # PyNone \/ Param(self, "pageNo") # PyNone)
       /\ ~endpoint_config.supports_pagination
    THEN <<"Endpoint '" \o self.endpoint \o "' does not support pagination">>
    ELSE IF Param(self, "period") = PyNone THEN <<>>
    ELSE IF ~endpoint_config.supports_time_period
    THEN <<"Endpoint '" \o self.endpoint \o "' does not support time period filtering">>
    ELSE IF \A k \in 1..Len(endpoint_config.allowed_time_periods) :
                endpoint_config.allowed_time_periods[k] # ToString(Param(self, "period").i)
    THEN <<"Period " \o ToString(Param(self, "period").i) \o " not allowed for endpoint '"
               \o self.endpoint \o "'. Allowed periods: ['7', '30', '90']">>
    ELSE <<>>

\* The payload rule of GET alone.
PayloadErrorOfGet(self) ==
    IF self.method = "GET" /\ self.payload # PyNone
    THEN <<"GET requests cannot have a payload">>
    ELSE <<>>

\* Lines 104-110.
PayloadError(self) ==
    IF self.method = "GET" /\ self.payload # PyNone
    THEN <<"GET requests cannot have a payload">>
    ELSE IF self.method = "POST" /\ ~Truthy(self.payload)
    THEN <<"POST requests must have a payload">>
    ELSE <<>>

\* Lines 72-112: validate_endpoint_capabilities, the text of the ValueError
\* it raises or nothing.
validate_endpoint_capabilities(self, endpoint_config) ==
    IF self.method = "POST" /\ ~endpoint_config.supports_upload
    THEN <<"Endpoint '" \o self.endpoint \o "' does not support POST operations">>
    ELSE IF self.method = "POST" /\ ~self.allowMutation
    THEN <<"POST tests require allowMutation=true">>
    ELSE IF self.params # PyNone /\ ParamsError(self, endpoint_config) # <<>>
    THEN ParamsError(self, endpoint_config)
    ELSE PayloadError(self)

\* TestDefinition(**test_data): the model, or the ValidationError of the
\* fields or of the validator run after them.
TestDefinition(d) ==
    IF FieldProblems(d) # <<>>
    THEN Raise([type |-> "ValidationError", errors |-> FieldProblems(d)])
    ELSE IF validate_endpoint_capabilities(Parsed(d), ENDPOINTS_CONFIG[Parsed(d).endpoint]) # <<>>
    THEN Raise([type |-> "ValidationError",
                errors |-> <<FieldProblem("", "Value error, "
                     \o validate_endpoint_capabilities(
                            Parsed(d), ENDPOINTS_CONFIG[Parsed(d).endpoint])[1])>>])
    ELSE [kind |-> "return", value |-> Parsed(d)]

\* ============================================================= test_storage.py

\* The (is_valid, error_message, test_definition) tuple.
Validated(is_valid, error, test_def) ==
    [is_valid |-> is_valid, error |-> error, test_def |-> test_def]

\* Lines 33-38 on the outcome of the constructor.
ValidationOutcome(made) ==
    IF made.kind = "return" THEN Validated(TRUE, PyNone, made.value)
    ELSE Validated(FALSE,
                   PyText(JoinText("; ", [k \in 1..Len(made.exc.errors) |->
                                              made.exc.errors[k].loc \o ": "
                                                  \o made.exc.errors[k].msg])),
                   PyNone)

\* TestStorage.validate_test_definition(test_data)
validate_test_definition(test_data) == ValidationOutcome(TestDefinition(test_data.d))


\* ------------------------------------------------------------- validate_test_definition, called

\* A key of the test data, left out when it has no value.
Entry(key, value) == IF value = Unbound THEN <<>> ELSE << <<key, value>> >>

\* The dict of a test definition; name and assertions are always given.
TestData(id, endpoint, method, environment, params, payload, allowMutation) ==
    PyDict(Entry("id", id)
           \o << <<"name", PyText("Test")>>, <<"environment", PyText(environment)>>,
                 <<"endpoint", PyText(endpoint)>>, <<"method", PyText(method)>> >>
           \o Entry("params", params)
           \o Entry("payload", payload)
           \o << <<"assertions", PyDict(<< <<"statusCode", PyInt(200)>> >>)>> >>
           \o Entry("allowMutation", allowMutation))

Ids == {Unbound, PyText("test-001")}

\* No params, null, none set, a page, an allowed and a disallowed period.
ParamsGiven ==
    {Unbound, PyNone, PyDict(<<>>),
     PyDict(<< <<"pageSize", PyInt(10)>>, <<"pageNo", PyInt(1)>> >>),
     PyDict(<< <<"period", PyInt(7)>> >>),
     PyDict(<< <<"period", PyInt(15)>> >>)}

PayloadsGiven == {Unbound, PyDict(<<>>), Wrapped("customers", <<>>), Wrapped("pricelist", <<>>)}

FlagsGiven == {Unbound, PyBool(TRUE), PyBool(FALSE)}

InitDefinition ==
    call \in {[op |-> "validate_test_definition",
               test_data |-> TestData(i, e, m, v, q, p, a), ret |-> Pending] :
                  i \in Ids, e \in EndpointNames, m \in MethodNames, v \in EnvironmentNames,
                  q \in ParamsGiven, p \in PayloadsGiven, a \in FlagsGiven}

ValidateTestDefinition ==
    /\ call.op = "validate_test_definition"
    /\ call.ret = Pending
    /\ call' = [call EXCEPT !.ret = [kind |-> "return",
                                     value |-> validate_test_definition(call.test_data)]]

NextDefinition == ValidateTestDefinition

SpecDefinition == InitDefinition /\ [][NextDefinition]_vars

\* ------------------------------------------------------------- claims on the validator

DefinitionReturned == call.op = "validate_test_definition" /\ call.ret # Pending

\* The values of the test data the conditions are about.
Given(key) == GetOr(call.test_data.d, key, PyNone)

GivenParam(name) == IF Given("params") = PyNone THEN PyNone ELSE GetOr(Given("params").d, name, PyNone)

Configured == Given("endpoint").text \in
    {"customers", "products", "orders", "trips", "supply-tracker", "salesman-attendance",
     "pricelist"}

Config == ENDPOINTS_CONFIG[Given("endpoint").text]

\* The conditions of the claim, read off the test data.
CapabilitiesMet ==
    /\ Configured
    /\ Given("method") = PyText("POST") =>
           /\ Config.supports_upload
           /\ Given("allowMutation") = PyBool(TRUE)
           /\ Given("payload").t = "dict" /\ Given("payload").d # <<>>
    /\ Given("method") = PyText("GET") => Given("payload") = PyNone
    /\ (GivenParam("pageSize") # PyNone \/ GivenParam("pageNo") # PyNone) =>
           Config.supports_pagination
    /\ GivenParam("period") # PyNone =>
           /\ Config.supports_time_period
           /\ GivenParam("period") \in {PyInt(7), PyInt(30), PyInt(90)}

\* The test data has the fields a definition must have, of their types.
FieldsMet ==
    /\ HasKey(call.test_data.d, "id")
    /\ Given("method") \in {PyText("GET"), PyText("POST")}
    /\ Given("environment") \in {PyText("qa"), PyText("prod")}

\* C28: validate_test_definition never raises; it accepts only test data
\* that meets the capability conditions (endpoint configured; POST with an
\* upload endpoint, allowMutation true and a non-empty payload; GET without
\* payload; paging only where supported; a period only where supported and
\* allowed), returns (True, None, definition) for well-formed data meeting
\* them, and (False, message, None) otherwise.
C28_AcceptsOnlyCapable ==
    DefinitionReturned =>
        /\ call.ret.kind = "return"
        /\ call.ret.value.is_valid <=> (FieldsMet /\ CapabilitiesMet)
        /\ call.ret.value.is_valid =>
               /\ call.ret.value.error = PyNone
               /\ call.ret.value.test_def # PyNone
               /\ call.ret.value.test_def.endpoint = Given("endpoint").text
               /\ call.ret.value.test_def.payload = Given("payload")
        /\ ~call.ret.value.is_valid =>
               /\ call.ret.value.error # PyNone
               /\ call.ret.value.error.t = "str"
               /\ call.ret.value.test_def = PyNone

\* C28 witness: a POST to customers with allowMutation and a wrapped payload
\* is accepted, the definition returned.
C28_Witness ==
    /\ DefinitionReturned
    /\ Given("method") = PyText("POST")
    /\ Given("endpoint") = PyText("customers")
    /\ Given("payload") = Wrapped("customers", <<>>)
    /\ call.ret.value.is_valid
    /\ call.ret.value.test_def.allowMutation


\* endpoint.title() on the endpoint names.
title(endpoint) ==
    CASE endpoint = "customers" -> "Customers"
      [] endpoint = "products" -> "Products"
      [] endpoint = "orders" -> "Orders"
      [] endpoint = "trips" -> "Trips"
      [] endpoint = "supply-tracker" -> "Supply-Tracker"
      [] endpoint = "salesman-attendance" -> "Salesman-Attendance"
      [] endpoint = "pricelist" -> "Pricelist"

\* int(text) on the decimal text of a period.
IntOfText(text) == CHOOSE n \in 0..99 : ToString(n) = text

\* Lines 85-96: the template before the method's branch.
BaseTemplate(endpoint, method) ==
    << <<"id", PyText("test-" \o endpoint \o "-001")>>,
       <<"name", PyText(title(endpoint) \o " " \o method \o " Test")>>,
       <<"environment", PyText("qa")>>,
       <<"endpoint", PyText(endpoint)>>,
       <<"method", PyText(method)>>,
       <<"assertions", PyDict(<< <<"statusCode", PyInt(200)>>,
                                 <<"responseTime", PyDict(<< <<"max", PyInt(3000)>> >>)>> >>)>>,
       <<"allowMutation", PyBool(FALSE)>> >>

\* Lines 99-108: the params of a GET template.
TemplateParams(config) ==
    (IF config.supports_pagination
     THEN << <<"pageSize", PyInt(10)>>, <<"pageNo", PyInt(1)>> >> ELSE <<>>)
    \o (IF config.supports_time_period /\ config.allowed_time_periods # <<>>
        THEN << <<"period", PyInt(IntOfText(config.allowed_time_periods[1]))>> >> ELSE <<>>)

\* template[key] = value on a key the template has.
Assign(d, key, value) == [k \in 1..Len(d) |-> IF d[k][1] = key THEN <<key, value>> ELSE d[k]]

\* TestStorage.get_test_template(endpoint, method)
get_test_template(endpoint, method) ==
    IF endpoint \notin DOMAIN ENDPOINTS_CONFIG
    THEN Raise([type |-> "ValueError", text |-> "Unknown endpoint: " \o endpoint])
    ELSE IF method = "GET"
    THEN [kind |-> "return",
          value |-> PyDict(BaseTemplate(endpoint, method)
                           \o << <<"params",
                                   IF TemplateParams(ENDPOINTS_CONFIG[endpoint]) # <<>>
                                   THEN PyDict(TemplateParams(ENDPOINTS_CONFIG[endpoint]))
                                   ELSE PyNone>>,
                                 <<"payload", PyNone>> >>)]
    ELSE IF method = "POST" /\ ~ENDPOINTS_CONFIG[endpoint].supports_upload
    THEN Raise([type |-> "ValueError",
                text |-> "Endpoint '" \o endpoint \o "' does not support POST operations"])
    ELSE IF method = "POST"
    THEN [kind |-> "return",
          value |-> PyDict(Assign(BaseTemplate(endpoint, method), "allowMutation", PyBool(TRUE))
                           \o << <<"params", PyNone>>,
                                 <<"payload", PyDict(<< <<endpoint, PyList(<<>>)>> >>)>> >>)]
    ELSE [kind |-> "return", value |-> PyDict(BaseTemplate(endpoint, method))]

\* ------------------------------------------------------------- a template generated, validated, guarded

TemplateMethods == {"GET", "POST", "PUT", "DELETE", "PATCH"}

InitTemplate ==
    call \in {[op |-> "get_test_template", endpoint |-> e, method |-> m, pc |-> "template",
               template |-> Pending, validated |-> Pending, format |-> Pending] :
                  e \in EndpointNames, m \in TemplateMethods}

\* The template asked for.
GetTestTemplate ==
    /\ call.op = "get_test_template"
    /\ call.pc = "template"
    /\ call' = [call EXCEPT !.template = get_test_template(call.endpoint, call.method),
                            !.pc = IF get_test_template(call.endpoint, call.method).kind = "raise"
                                   THEN "done" ELSE "validate"]

\* The template given to validate_test_definition.
ValidateTemplate ==
    /\ call.op = "get_test_template"
    /\ call.pc = "validate"
    /\ call' = [call EXCEPT !.validated = validate_test_definition(call.template.value),
                            !.pc = IF call.method = "POST" THEN "format" ELSE "done"]

\* The payload of a POST template given to the guard's format check.
CheckTemplateFormat ==
    /\ call.op = "get_test_template"
    /\ call.pc = "format"
    /\ call' = [call EXCEPT !.format =
                    validate_payload_format(call.endpoint,
                                            Lookup(call.template.value.d, "payload")),
                            !.pc = "done"]

NextTemplate ==
    \/ GetTestTemplate
    \/ ValidateTemplate
    \/ CheckTemplateFormat

SpecTemplate == InitTemplate /\ [][NextTemplate]_vars

\* ------------------------------------------------------------- claims on the templates

\* A template the claim is about: GET for a configured endpoint, POST for
\* an upload-capable one.
TemplateClaimed ==
    /\ call.op = "get_test_template"
    /\ \/ call.method = "GET" /\ call.endpoint \in DOMAIN ENDPOINTS_CONFIG
       \/ call.method = "POST" /\ call.endpoint \in {"customers", "products", "pricelist"}

\* C29 (as claimed): every GET template of a configured endpoint and every
\* POST template of an upload-capable endpoint is returned and accepted by
\* validate_test_definition, and the payload of every POST template passes
\* validate_payload_format for its endpoint.
C29_TemplatesRunnable ==
    TemplateClaimed =>
        /\ call.template # Pending => call.template.kind = "return"
        /\ call.validated # Pending => call.validated.is_valid
        /\ call.format # Pending => call.format.is_valid


\* ------------------------------------------------------------- run_test, its test validated and guarded

\* The worlds of the runs, the validation and the safety checks left to the
\* code: the requests and the decoding succeed or fail.
GuardWorlds ==
    {w \in Worlds : w.valid /\ w.safe /\ w.response.status_code = PyInt(200)}

\* The tests of the runs; the assertions are kept as the engine takes them.
GuardTests ==
    {TestData(PyText("test-001"), e, m, v, Unbound, p, a) :
         e \in EndpointNames, m \in MethodNames, v \in EnvironmentNames,
         p \in PayloadsGiven, a \in FlagsGiven}

InitGuard ==
    call \in {[op |-> "run_test", method |-> Lookup(t.d, "method").text,
               assertions |-> PyDict(<< <<KindStatusCode, PyInt(200)>> >>),
               world |-> w, pc |-> "guard", test |-> t,
               validated |-> Pending, safety |-> Pending,
               start_time |-> Unbound, token |-> Unbound, response |-> Unbound,
               response_data |-> Unbound, status_code |-> Unbound,
               response_time_ms |-> Unbound, assertion_results |-> Pending,
               result |-> Pending] :
                  t \in GuardTests, w \in GuardWorlds}

\* Lines 606-611: the test validated.
GuardValidate ==
    /\ call.op = "run_test"
    /\ call.pc = "guard"
    /\ call' = IF ~validate_test_definition(call.test).is_valid
               THEN [Failure(call, "Invalid test")
                         EXCEPT !.validated = validate_test_definition(call.test)]
               ELSE [call EXCEPT !.validated = validate_test_definition(call.test),
                                 !.pc = IF call.method = "POST" THEN "guard_safety" ELSE "start"]

\* The run going on whatever the checks say.
AfterSafetyIgnoringResult(c, safety) == [c EXCEPT !.safety = safety, !.pc = "start"]

\* Lines 622-626: the failure of an unsafe POST.
AfterSafety(c, safety) ==
    IF ~safety.is_safe
    THEN [Failure(c, "Mutation safety check failed") EXCEPT !.safety = safety]
    ELSE [c EXCEPT !.safety = safety, !.pc = "start"]

\* Lines 614-626: the safety checks of a POST, on the fields of the test.
GuardSafety ==
    /\ call.op = "run_test"
    /\ call.pc = "guard_safety"
    /\ call' = AfterSafety(call,
                           perform_mutation_safety_checks(
                               Lookup(call.test.d, "endpoint").text,
                               Lookup(call.test.d, "method").text,
                               Lookup(call.test.d, "environment").text,
                               GetOr(call.test.d, "payload", PyNone),
                               GetOr(call.test.d, "allowMutation", PyBool(FALSE))))

NextGuard ==
    \/ GuardValidate
    \/ GuardSafety
    \/ StartTiming
    \/ AcquireToken
    \/ SendRequest
    \/ ReadResponse
    \/ EndTiming
    \/ EvaluateAssertions
    \/ ReturnResult

SpecGuard == InitGuard /\ [][NextGuard]_vars

\* ------------------------------------------------------------- claims on the guarded run

\* A token was asked for or a request sent.
NetworkUsed == call.pc \in {"request", "read", "end", "evaluate", "reduce"} \/ call.token # Unbound
                   \/ call.response # Unbound

\* The test passed validation and, for a POST, the safety checks.
GuardsPassed ==
    /\ call.validated # Pending
    /\ call.validated.is_valid
    /\ call.method = "POST" => (call.safety # Pending /\ call.safety.is_safe)

\* Validation or the safety checks have failed.
GuardFailed ==
    \/ call.validated # Pending /\ ~call.validated.is_valid
    \/ call.safety # Pending /\ ~call.safety.is_safe

\* C27: run_test acquires no token and sends no request unless the test
\* passed validate_test_definition and, for a POST, the safety checks
\* returned is_safe=True; when either fails the handler returns
\* success=false with no network call made, and a POST aimed at prod never
\* reaches the network.
C27_NoNetworkUnlessGuardsPass ==
    call.op = "run_test" =>
        /\ NetworkUsed => GuardsPassed
        /\ GuardFailed =>
               /\ call.pc = "done"
               /\ ~call.result.success
               /\ ~NetworkUsed
        /\ (/\ call.method = "POST"
            /\ Lookup(call.test.d, "environment") = PyText("prod")) => ~NetworkUsed

\* C27 witness: a valid POST to prod, flagged and wrapped, ended in a
\* failure with no token and no response.
C27_Witness ==
    /\ call.op = "run_test"
    /\ call.pc = "done"
    /\ call.method = "POST"
    /\ Lookup(call.test.d, "environment") = PyText("prod")
    /\ call.validated.is_valid
    /\ call.safety # Pending
    /\ ~call.safety.is_safe
    /\ ~call.result.success
    /\ call.token = Unbound
    /\ call.response = Unbound


\* ------------------------------------------------------------- claims on the three places that allow POST

Whitelist == {POST_WHITELIST[k] : k \in 1..Len(POST_WHITELIST)}

UploadCapable == {e \in DOMAIN ENDPOINTS_CONFIG : ENDPOINTS_CONFIG[e].supports_upload}

\* The errors of the whitelist, flag and missing-payload checks for the test.
EarlyErrors ==
    { validate_post_endpoint(Lookup(call.test.d, "endpoint").text).error,
      PyText("POST operations require allowMutation=true in test definition"),
      PyText("POST requests must have a payload") }

\* The safety checks ran, on a POST test the validator accepted.
AcceptedGuarded ==
    /\ call.op = "run_test"
    /\ call.safety # Pending
    /\ call.validated.is_valid
    /\ call.method = "POST"

\* C30: POST_WHITELIST, the endpoints with supports_upload and the
\* endpoints with an upload schema are the same set; and the safety checks
\* run on a POST test that validate_test_definition accepted never fail on
\* the whitelist, the allowMutation or the missing-payload check.
C30_PostPlacesAgree ==
    /\ Whitelist = UploadCapable
    /\ Whitelist = DOMAIN UPLOAD_SCHEMAS
    /\ (call.op = "run_test" /\ call.safety # Pending) =>
           /\ AcceptedGuarded
           /\ call.safety.error \notin EarlyErrors

\* C30 witness: an accepted POST to pricelist went through the whitelist,
\* flag and payload checks and failed a later one.
C30_Witness ==
    /\ AcceptedGuarded
    /\ Lookup(call.test.d, "endpoint") = PyText("pricelist")
    /\ ~call.safety.is_safe
    /\ call.safety.error \in
           { PyText("Production mutations are blocked. Please use QA environment for testing."),
             PyText("Pricelist payload must have 'priceList' wrapper: {\"priceList\": [...]}") }

====
